---- MODULE Spec2Model ----
(***************************************************************************)
(* The redis storage of the MaxScale cache filter                          *)
(* (server/modules/filter/cache/storage/storage_redis/redisstorage.cc).    *)
(*                                                                         *)
(* A RedisToken owns one hiredis connection.  get_value, put_value,        *)
(* del_value and invalidate each queue a job on the thread pool; the job   *)
(* talks to the redis server over the token's connection and then posts    *)
(* a completion to the worker the token was created on, which invokes the  *)
(* caller's callback if the token is still referenced by somebody else.    *)
(*                                                                         *)
(* The connection is modelled as two queues per token: outq, the commands  *)
(* written but not yet processed by the server, and inq, the replies the   *)
(* server produced and the job has not read yet.                           *)
(*                                                                         *)
(* RedisStorage is the factory: create parses HOST:PORT and constructs     *)
(* the storage, create_token connects and constructs a token.  The model   *)
(* keeps the storages created, the tokens handed out, the lines logged     *)
(* and the last call made at that level.                                   *)
(***************************************************************************)
EXTENDS Integers, Sequences, FiniteSets, TLC

\* ------------------------------------------------------------------ bounds
\* Operations issued in one run of Spec.
MaxOps == 3
\* Operations issued in one run of SpecInv.
MaxInvOps == 4
\* Operations issued in one run of SpecTTL.
MaxTtlOps == 2
\* Operations issued in one run of SpecAsync.
MaxAsyncOps == 2
\* Operations issued in one run of SpecFault.
MaxFaultOps == 2
\* Replies of another shape than expected in one run of SpecFault.
MaxOdd == 1
\* Operations issued in one run of SpecMulti, over both tokens.
MaxMultiOps == 4
\* The hard ttl (ms) of a storage configured with expiry.
TtlMs == 2
\* How far the clock runs in SpecTTL.
MaxTime == TtlMs + 2
\* Calls of RedisStorage::create in one run of SpecCreate.
MaxCreates == 2
\* Calls of create_token in one run of SpecCreate.
MaxTokens == 1
\* Operations issued in one run of SpecCfg.
MaxCfgOps == 2
\* Operations issued in one run of SpecUnsupported.
MaxUnsupportedOps == 2
\* operations in a run of SpecFaultInv
MaxFaultInvOps == 2
\* replies waiting on the connection at the start of a run of SpecRedis
MaxReplies == 2
\* operations in a run of SpecBetween
MaxBetweenOps == 4
\* operations in a run of SpecVisible
MaxVisibleOps == 3

Tokens == {"s1", "s2"}
Workers == {"wk1", "wk2"}
KeyOrder == <<"q1", "q2">>
Keys == {KeyOrder[i] : i \in 1..Len(KeyOrder)}
Values == {"A", "B"}
Words == {"t1", "t2"}
WordLists == {<<>>, <<"t1">>, <<"t2">>, <<"t1", "t2">>}

\* cache_result_t
CACHE_RESULT_OK == "OK"
CACHE_RESULT_NOT_FOUND == "NOT_FOUND"
CACHE_RESULT_ERROR == "ERROR"
CACHE_RESULT_PENDING == "PENDING"

NoValue == "none"
NoExpiry == 0 - 1

\* ----------------------------------------------------------- redis replies
\* redisReply: a tagged value.  "FAIL" stands for a reply that could not be
\* read (redisGetReply != REDIS_OK, or a null reply from redisCommand).
Reply(type, str, int, elems) ==
    [type |-> type, str |-> str, int |-> int, elems |-> elems]
Status(s) == Reply("STATUS", s, 0, <<>>)
Error(s) == Reply("ERROR", s, 0, <<>>)
Integer(i) == Reply("INTEGER", "", i, <<>>)
Nil == Reply("NIL", "", 0, <<>>)
String(s) == Reply("STRING", s, 0, <<>>)
Array(es) == Reply("ARRAY", "", 0, es)
Fail == Reply("FAIL", "", 0, <<>>)

\* ---------------------------------------------------------- redis commands
\* op names the operation whose job appended the command.
Cmd(op, cmd, key, args, px) ==
    [op |-> op, cmd |-> cmd, key |-> key, args |-> args, px |-> px]
NoPx == 0 - 1

\* ------------------------------------------------------- the backing store
\* str: the string values, exp: their expiry times, hash: the fields of the
\* hash of each invalidation word; by: the operation whose SET stored the
\* value of a key (0 when there is none), kept for the record only.
EmptyDb ==
    [str |-> [k \in Keys |-> NoValue],
     exp |-> [k \in Keys |-> NoExpiry],
     by |-> [k \in Keys |-> 0],
     hash |-> [w \in Words |-> {}]]

RECURSIVE SeqToSet(_)
SeqToSet(s) == IF s = <<>> THEN {} ELSE {Head(s)} \cup SeqToSet(Tail(s))

\* The fields of a hash in the order the server lists them.
FieldSeq(S) == SelectSeq(KeyOrder, LAMBDA k : k \in S)

RECURSIVE Interleave(_)
Interleave(ks) ==
    IF ks = <<>> THEN <<>>
    ELSE <<String(Head(ks)), String("1")>> \o Interleave(Tail(ks))

\* A string key holds a value at time t: it was set and has not expired.
Live(db, k, t) ==
    /\ db.str[k] # NoValue
    /\ db.exp[k] = NoExpiry \/ t <= db.exp[k]

\* One command applied to the store at time t: the new store and the reply.
Apply(c, db, t) ==
    CASE c.cmd = "GET" ->
           [db |-> db,
            reply |-> IF Live(db, c.key, t) THEN String(db.str[c.key]) ELSE Nil]
      [] c.cmd = "SET" ->
           IF c.px # NoPx /\ c.px <= 0
           THEN [db |-> db, reply |-> Error("ERR invalid expire time in set")]
           ELSE [db |-> [db EXCEPT !.str[c.key] = c.args[1],
                                   !.by[c.key] = c.op,
                                   !.exp[c.key] = IF c.px = NoPx THEN NoExpiry ELSE t + c.px],
                 reply |-> Status("OK")]
      [] c.cmd = "DEL" ->
           LET ks == SeqToSet(c.args)
               hit == {k \in ks \cap Keys : Live(db, k, t)}
           IN [db |-> [db EXCEPT !.str = [k \in Keys |-> IF k \in ks THEN NoValue ELSE @[k]],
                                 !.by = [k \in Keys |-> IF k \in ks THEN 0 ELSE @[k]],
                                 !.exp = [k \in Keys |-> IF k \in ks THEN NoExpiry ELSE @[k]]],
               reply |-> Integer(Cardinality(hit))]
      [] c.cmd = "HSET" ->
           [db |-> [db EXCEPT !.hash[c.key] = @ \cup {c.args[1]}],
            reply |-> Integer(IF c.args[1] \in db.hash[c.key] THEN 0 ELSE 1)]
      [] c.cmd = "HGETALL" ->
           [db |-> db, reply |-> Array(Interleave(FieldSeq(db.hash[c.key])))]
      [] c.cmd = "HDEL" ->
           LET ks == SeqToSet(c.args)
           IN [db |-> [db EXCEPT !.hash[c.key] = @ \ ks],
               reply |-> Integer(Cardinality(db.hash[c.key] \cap ks))]
      [] OTHER -> [db |-> db, reply |-> Error("ERR unknown command")]

\* The commands queued between MULTI and EXEC, executed in order at EXEC.
RECURSIVE ExecQueued(_, _, _)
ExecQueued(cs, db, t) ==
    IF cs = <<>> THEN [db |-> db, replies |-> <<>>]
    ELSE LET one == Apply(Head(cs), db, t)
             rest == ExecQueued(Tail(cs), one.db, t)
         IN [db |-> rest.db, replies |-> <<one.reply>> \o rest.replies]

\* The position of the first EXEC in a command sequence, 0 when there is none.
RECURSIVE ExecPos(_, _)
ExecPos(cs, i) ==
    IF i > Len(cs) THEN 0
    ELSE IF cs[i].cmd = "EXEC" THEN i ELSE ExecPos(cs, i + 1)

\* What the server does with the head of a connection's pending commands:
\* a whole MULTI ... EXEC group at once (the queued commands touch nothing
\* until EXEC), any other command alone.  n is the number consumed.
ServerStep(cs, db, t) ==
    IF Head(cs).cmd = "MULTI" /\ ExecPos(cs, 1) > 0
    THEN LET e == ExecPos(cs, 1)
             queued == SubSeq(cs, 2, e - 1)
             done == ExecQueued(queued, db, t)
         IN [db |-> done.db,
             n |-> e,
             op |-> cs[e].op,
             replies |-> <<Status("OK")>>
                         \o [i \in 1..Len(queued) |-> Status("QUEUED")]
                         \o <<Array(done.replies)>>]
    ELSE LET one == Apply(Head(cs), db, t)
         IN [db |-> one.db, n |-> 1, op |-> Head(cs).op, replies |-> <<one.reply>>]

\* ------------------------------------------------------------- Redis class
\* The replies waiting on a connection end with Fail once the connection has
\* failed: the replies before it can still be read, every read after them
\* fails at once (redisGetReply returns REDIS_ERR without blocking).
Broken(q) == q # <<>> /\ q[Len(q)] = Fail

\* n reads on the connection return without blocking.
Readable(q, n) == Len(q) >= n \/ Broken(q)

\* What n reads return.
Taken(q, n) == [i \in 1..n |-> IF i <= Len(q) THEN q[i] ELSE Fail]

\* What is left to read after n reads.
After(q, n) == IF n < Len(q) THEN SubSeq(q, n + 1, Len(q))
               ELSE IF Broken(q) THEN <<Fail>> ELSE <<>>

\* Redis::expect_status: one reply read; a reply that is not a status leaves
\* rv at REDIS_OK.
ExpectStatus(r, zValue) ==
    IF r.type = "FAIL" THEN FALSE
    ELSE IF r.type = "STATUS" THEN r.str = zValue
    ELSE TRUE

\* (mutant) the result of the last of the n calls is the result.
ExpectNStatusLast(rs, zValue) == rs = <<>> \/ ExpectStatus(rs[Len(rs)], zValue)

\* Redis::expect_n_status over the n replies rs.
ExpectNStatus(rs, zValue) == \A i \in 1..Len(rs) : ExpectStatus(rs[i], zValue)

\* ------------------------------------------------------ RedisToken::get_value
GetCommands(o, key) == <<Cmd(o, "GET", key, <<>>, NoPx)>>

\* (mutant) a status reply is taken for the value as a string reply is.
GetResultStatusToo(reply) ==
    IF reply.type \in {"STRING", "STATUS"} THEN [rv |-> CACHE_RESULT_OK, val |-> reply.str]
    ELSE IF reply.type = "NIL" THEN [rv |-> CACHE_RESULT_NOT_FOUND, val |-> NoValue]
    ELSE [rv |-> CACHE_RESULT_ERROR, val |-> NoValue]

\* The switch on the reply to GET: the result and the value handed on.
GetResult(reply) ==
    IF reply.type = "STRING" THEN [rv |-> CACHE_RESULT_OK, val |-> reply.str]
    ELSE IF reply.type = "NIL" THEN [rv |-> CACHE_RESULT_NOT_FOUND, val |-> NoValue]
    ELSE [rv |-> CACHE_RESULT_ERROR, val |-> NoValue]

\* ------------------------------------------------------ RedisToken::put_value
\* (mutant) the SET is given the key bytes where the value belongs.
PutSetKeyAsValue(o, key, val, ttl) == Cmd(o, "SET", key, <<key>>, ttl)

\* (mutant) the SET carries no PX option.
PutSetNoPx(o, key, val, ttl) == Cmd(o, "SET", key, <<val>>, NoPx)

PutSet(o, key, val, ttl) == Cmd(o, "SET", key, <<val>>, ttl)

\* (mutant) the transaction is followed by a DEL of the key, to undo a put
\* that fails.
PutCommandsWithUndo(o, key, words, val, ttl) ==
    <<Cmd(o, "MULTI", "", <<>>, NoPx)>>
    \o [i \in 1..Len(words) |-> Cmd(o, "HSET", words[i], <<key, "1">>, NoPx)]
    \o <<PutSet(o, key, val, ttl)>>
    \o <<Cmd(o, "EXEC", "", <<>>, NoPx)>>
    \o <<Cmd(o, "DEL", "", <<key>>, NoPx)>>

\* (mutant) the SET is queued before the HSETs.
PutCommandsSetFirst(o, key, words, val, ttl) ==
    <<Cmd(o, "MULTI", "", <<>>, NoPx)>>
    \o <<PutSet(o, key, val, ttl)>>
    \o [i \in 1..Len(words) |-> Cmd(o, "HSET", words[i], <<key, "1">>, NoPx)]
    \o <<Cmd(o, "EXEC", "", <<>>, NoPx)>>

PutCommands(o, key, words, val, ttl) ==
    <<Cmd(o, "MULTI", "", <<>>, NoPx)>>
    \o [i \in 1..Len(words) |-> Cmd(o, "HSET", words[i], <<key, "1">>, NoPx)]
    \o <<PutSet(o, key, val, ttl)>>
    \o <<Cmd(o, "EXEC", "", <<>>, NoPx)>>

\* How many replies the job reads, given the first reply (rs[1]) it reads.
PutNeeds(rs, n) ==
    IF rs = <<>> THEN 1
    ELSE IF ExpectStatus(rs[1], "OK") THEN n + 3 ELSE 1

\* The reply to EXEC can be indexed at element n (0-based) as the code does.
ExecIndexable(reply, n) == reply.type = "ARRAY" /\ Len(reply.elems) >= n + 1

\* (mutant) a SET that was not answered OK is reported as NOT_FOUND.
PutResultNotFound(rs, n) ==
    IF ~ExpectStatus(rs[1], "OK") THEN CACHE_RESULT_OK
    ELSE IF rs[n + 3].type = "FAIL" THEN CACHE_RESULT_ERROR
    ELSE IF ~ExecIndexable(rs[n + 3], n) THEN "UB"
    ELSE IF rs[n + 3].elems[n + 1] = Status("OK") THEN CACHE_RESULT_OK
    ELSE CACHE_RESULT_NOT_FOUND

\* The result of put_value from the replies it read; n = |invalidation_words|.
\* On a failed MULTI line 571 assigns rc, so rv keeps CACHE_RESULT_OK.
PutResult(rs, n) ==
    IF ~ExpectStatus(rs[1], "OK") THEN CACHE_RESULT_OK
    ELSE IF rs[n + 3].type = "FAIL" THEN CACHE_RESULT_ERROR
    ELSE IF ~ExecIndexable(rs[n + 3], n) THEN "UB"
    ELSE IF rs[n + 3].elems[n + 1] = Status("OK") THEN CACHE_RESULT_OK
    ELSE CACHE_RESULT_ERROR

\* An mxb_assert of put_value fails on these replies (debug builds abort):
\* those of lines 533-549, and the one in Reply::str() when line 554 asks the
\* array for its string because the element is a status other than "OK".
PutAsserts(rs, n) ==
    /\ ExpectStatus(rs[1], "OK")
    /\ rs[n + 3].type # "FAIL"
    /\ IF rs[n + 3].type # "ARRAY" THEN TRUE
       ELSE IF Len(rs[n + 3].elems) # n + 1 THEN TRUE
       ELSE IF \E i \in 1..n : rs[n + 3].elems[i].type # "INTEGER" THEN TRUE
       ELSE rs[n + 3].elems[n + 1] # Status("OK")

\* ------------------------------------------------------ RedisToken::del_value
DelCommands(o, key) == <<Cmd(o, "DEL", "", <<key>>, NoPx)>>

\* (mutant) the count 0 is not told apart from 1.
DelResultNoZero(reply) ==
    IF reply.type = "INTEGER" THEN CACHE_RESULT_OK ELSE CACHE_RESULT_ERROR

DelResult(reply) ==
    IF reply.type = "INTEGER"
    THEN IF reply.int = 0 THEN CACHE_RESULT_NOT_FOUND ELSE CACHE_RESULT_OK
    ELSE CACHE_RESULT_ERROR

\* ----------------------------------------------------- RedisToken::invalidate
\* (mutant) every HGETALL asks for the hash of the first word of the cache.
InvalidateCommandsAOneHash(o, words) ==
    [i \in 1..Len(words) |-> Cmd(o, "HGETALL", "t1", <<>>, NoPx)]

InvalidateCommandsA(o, words) ==
    [i \in 1..Len(words) |-> Cmd(o, "HGETALL", words[i], <<>>, NoPx)]

\* (mutant) the loop starts at element 1 and so walks the values.
ReplyFieldsFromValues(reply) ==
    LET idx == {j \in 1..Len(reply.elems) : j % 2 = 0}
        even == [i \in 1..Cardinality(idx) |-> reply.elems[2 * i]]
        strs == SelectSeq(even, LAMBDA e : e.type = "STRING")
    IN [i \in 1..Len(strs) |-> strs[i].str]

\* The string fields of an HGETALL reply: elements 0, 2, 4, ...
ReplyFields(reply) ==
    LET idx == {j \in 1..Len(reply.elems) : j % 2 = 1}
        odd == [i \in 1..Cardinality(idx) |-> reply.elems[2 * i - 1]]
        strs == SelectSeq(odd, LAMBDA e : e.type = "STRING")
    IN [i \in 1..Len(strs) |-> strs[i].str]

\* (mutant) collecting stops at the first reply that is no array.
RECURSIVE HdelArgvsUntilFailure(_, _, _)
HdelArgvsUntilFailure(words, rs, i) ==
    IF i > Len(words) THEN <<>>
    ELSE IF rs[i].type = "ARRAY"
         THEN <<[word |-> words[i], keys |-> ReplyFields(rs[i])]>>
              \o HdelArgvsUntilFailure(words, rs, i + 1)
         ELSE <<>>

\* hdel_argvs: one entry per reply that is an array, with the word and its keys.
RECURSIVE HdelArgvs(_, _, _)
HdelArgvs(words, rs, i) ==
    IF i > Len(words) THEN <<>>
    ELSE (IF rs[i].type = "ARRAY"
          THEN <<[word |-> words[i], keys |-> ReplyFields(rs[i])]>>
          ELSE <<>>)
         \o HdelArgvs(words, rs, i + 1)

\* (mutant) once a key is found, every key of the cache is deleted.
DelArgvEveryKey(hdels) ==
    IF \A i \in 1..Len(hdels) : hdels[i].keys = <<>> THEN <<>> ELSE KeyOrder

\* (mutant) no key is collected for the DEL.
DelArgvNone(hdels) == <<>>

\* del_argv without the leading "DEL": the keys of all words, in order.
RECURSIVE DelArgv(_)
DelArgv(hdels) ==
    IF hdels = <<>> THEN <<>> ELSE Head(hdels).keys \o DelArgv(Tail(hdels))

\* (mutant) phase B is sent whatever phase A collected.
PhaseBAlways(hdels) == TRUE

\* Phase B is sent when a key was collected (del_argv.size() > 1).
PhaseBNeeded(hdels) == DelArgv(hdels) # <<>>

\* An HDEL is appended only for an entry that has keys (hdel_argv.size() > 2).
HdelSent(h) == h.keys # <<>>

\* (mutant) every HDEL names the hash of the first word that had keys.
InvalidateCommandsBOneHash(o, hdels) ==
    LET sent == SelectSeq(hdels, HdelSent)
    IN <<Cmd(o, "MULTI", "", <<>>, NoPx)>>
       \o [i \in 1..Len(sent) |-> Cmd(o, "HDEL", sent[1].word, sent[i].keys, NoPx)]
       \o <<Cmd(o, "DEL", "", DelArgv(hdels), NoPx)>>
       \o <<Cmd(o, "EXEC", "", <<>>, NoPx)>>

InvalidateCommandsB(o, hdels) ==
    LET sent == SelectSeq(hdels, HdelSent)
    IN <<Cmd(o, "MULTI", "", <<>>, NoPx)>>
       \o [i \in 1..Len(sent) |-> Cmd(o, "HDEL", sent[i].word, sent[i].keys, NoPx)]
       \o <<Cmd(o, "DEL", "", DelArgv(hdels), NoPx)>>
       \o <<Cmd(o, "EXEC", "", <<>>, NoPx)>>

\* The number of QUEUED replies phase B reads: hdel_argvs.size() + 1.
InvalidateQueued(hdels) == Len(hdels) + 1

\* How many replies phase B reads, given the replies rs present so far.
InvalidateNeedsB(rs, nq) ==
    IF rs = <<>> THEN 1
    ELSE IF ExpectStatus(rs[1], "OK") THEN nq + 2 ELSE 1

\* The result of phase B from the replies it read.
InvalidateResultB(rs, nq) ==
    IF ~ExpectStatus(rs[1], "OK") THEN CACHE_RESULT_ERROR
    ELSE IF rs[nq + 2].type = "FAIL" THEN CACHE_RESULT_ERROR
    ELSE IF ~ExecIndexable(rs[nq + 2], nq - 1) THEN "UB"
    ELSE CACHE_RESULT_OK

\* An mxb_assert of invalidate's phase B fails on these replies (debug builds
\* abort); nq = hdel_argvs.size() + 1.
InvalidateAsserts(rs, nq) ==
    /\ ExpectStatus(rs[1], "OK")
    /\ rs[nq + 2].type # "FAIL"
    /\ IF rs[nq + 2].type # "ARRAY" THEN TRUE
       ELSE IF Len(rs[nq + 2].elems) # nq THEN TRUE
       ELSE \E i \in 1..nq : rs[nq + 2].elems[i].type # "INTEGER"

\* --------------------------------------------------------------- RedisStorage
\* A string is the sequence of its characters.
Digits == <<"0", "1", "2", "3", "4", "5", "6", "7", "8", "9">>
IsDigit(c) == \E d \in 1..Len(Digits) : Digits[d] = c
DigitVal(c) == (CHOOSE d \in 1..Len(Digits) : Digits[d] = c) - 1

\* mxb::strtok(str, delim): the fields of str that the delimiter separates.
RECURSIVE Strtok(_, _)
Strtok(s, delim) ==
    IF s = <<>> THEN <<>>
    ELSE IF Head(s) = delim THEN Strtok(Tail(s), delim)
    ELSE LET ends == {i \in 1..Len(s) : s[i] = delim}
             n == IF ends = {} THEN Len(s) + 1
                  ELSE CHOOSE i \in ends : \A j \in ends : i <= j
         IN <<SubSeq(s, 1, n - 1)>> \o Strtok(SubSeq(s, n + 1, Len(s)), delim)

\* The number a string of digits denotes.
RECURSIVE DecimalValue(_)
DecimalValue(ds) ==
    IF ds = <<>> THEN 0
    ELSE 10 * DecimalValue(SubSeq(ds, 1, Len(ds) - 1)) + DigitVal(ds[Len(ds)])

\* mxb::get_int(s, &port): s as a decimal integer, when it is one.
GetInt(s) ==
    LET neg == s # <<>> /\ Head(s) = "-"
        ds == IF neg THEN Tail(s) ELSE s
    IN IF ds = <<>> \/ \E i \in 1..Len(ds) : ~IsDigit(ds[i])
       THEN [ok |-> FALSE, val |-> 0]
       ELSE [ok |-> TRUE, val |-> IF neg THEN 0 - DecimalValue(ds) ELSE DecimalValue(ds)]

\* Config of the cache storage api.
Config(soft, hard, size, count) ==
    [soft_ttl |-> soft, hard_ttl |-> hard, max_size |-> size, max_count |-> count]

\* (mutant) the soft ttl is taken for the ttl of the tokens.
StorageTtlSoft(cfg) == cfg.soft_ttl

\* m_ttl as the constructor sets it.
StorageTtl(cfg) == IF cfg.hard_ttl = 0 THEN 0 ELSE cfg.hard_ttl

\* What the constructor logs.
CtorWarnings(cfg) ==
    IF cfg.soft_ttl # cfg.hard_ttl THEN <<"W_SOFT_HARD_TTL">> ELSE <<>>

\* RedisStorage::RedisStorage
RedisStorageCtor(cfg, host, port) ==
    [m_config |-> cfg, m_host |-> host, m_port |-> port, m_ttl |-> StorageTtl(cfg)]

\* What create logs before it looks at its arguments.
CreateWarnings(cfg) ==
    (IF cfg.max_size # 0 THEN <<"W_MAX_SIZE">> ELSE <<>>)
    \o (IF cfg.max_count # 0 THEN <<"W_MAX_COUNT">> ELSE <<>>)

\* (mutant) port 0 passes as well.
PortAcceptedZeroToo(r) == r.ok /\ r.val >= 0

\* `mxb::get_int(vs[1], &port) && port > 0`
PortAccepted(r) == r.ok /\ r.val > 0

\* RedisStorage::create after its warnings: the storage created (none for
\* nullptr) and what is logged on the way.
CreateResult(cfg, arguments) ==
    LET vs == Strtok(arguments, ":")
    IN IF Len(vs) = 2
       THEN IF PortAccepted(GetInt(vs[2]))
            THEN [storage |-> <<RedisStorageCtor(cfg, vs[1], GetInt(vs[2]).val)>>,
                  log |-> CtorWarnings(cfg)]
            ELSE [storage |-> <<>>, log |-> <<"E_HOST_PORT">>]
       ELSE [storage |-> <<>>, log |-> <<"E_FORMAT">>]

\* The lines the module logs at the storage level.
LogLines == {"W_SOFT_HARD_TTL", "W_MAX_SIZE", "W_MAX_COUNT", "E_HOST_PORT",
             "E_FORMAT", "E_HANDLE"}

\* The log after the lines ls were written: how often each line was logged.
Logged(lg, ls) ==
    [m \in LogLines |-> lg[m] + Cardinality({i \in 1..Len(ls) : ls[i] = m})]

\* (mutant) the unsupported clear reports success.
UnsupportedResultClearOk(fn) ==
    IF fn = "clear" THEN CACHE_RESULT_OK ELSE CACHE_RESULT_ERROR

\* get_info, clear, get_head, get_tail, get_size and get_items.
UnsupportedResult(fn) == CACHE_RESULT_ERROR

Unsupported == {"get_info", "clear", "get_head", "get_tail", "get_size", "get_items"}

\* ------------------------------------------------------------------- state
VARIABLES
    m_ttl,      \* RedisStorage::m_ttl, handed to every token
    m_pWorker,  \* RedisToken::m_pWorker of each token
    created,    \* the worker each token was constructed on
    callerRef,  \* the session still holds its shared_ptr to the token
    ops,        \* every operation issued so far, in the order of the calls
    outq,       \* per token: commands written, not yet processed by the server
    inq,        \* per token: replies produced, not yet read
    db,         \* the redis server's data
    wq,         \* per worker: the completions posted with EXECUTE_QUEUED
    now,        \* the clock (ms)
    raced,      \* per token: two jobs have used the connection at once
    crashed,    \* the process has aborted
    post,       \* per token: the operations whose completion was posted, in order
    dlv,        \* per token: the operations whose completion has run, in order
    storages,   \* the RedisStorage instances create has returned, in order
    minted,     \* the tokens create_token has handed out, in order
    log,        \* how often each line of the storage level was logged
    last,       \* the last call at the storage level and what it returned
    closes      \* per token: how often ~Redis has freed its connection

vars == <<m_ttl, m_pWorker, created, callerRef, ops, outq, inq, db, wq, now,
          raced, crashed, post, dlv, storages, minted, log, last, closes>>

\* What belongs to the storage and the tokens' construction.
config == <<m_ttl, m_pWorker, created, storages, minted, log, last>>

OpIds == 1..Len(ops)
Results == {CACHE_RESULT_OK, CACHE_RESULT_NOT_FOUND, CACHE_RESULT_ERROR}

\* The values the job of an operation assigns to its rv.
ResultsOf(kind) ==
    IF kind \in {"put", "invalidate"}
    THEN {CACHE_RESULT_OK, CACHE_RESULT_ERROR}
    ELSE Results

\* The arguments of one call.
Req(kind, key, words, val) == [kind |-> kind, key |-> key, words |-> words, val |-> val]

\* get_value with its flags, soft_ttl and hard_ttl arguments.
GetReqWith(key, flags, soft, hard) ==
    Req("get", key, <<>>, NoValue)
    @@ [flags |-> flags, soft_ttl |-> soft, hard_ttl |-> hard]

\* An argument of a call, 0 where the run leaves it out.
Arg(req, name) == IF name \in DOMAIN req THEN req[name] ELSE 0
GetReqs == {Req("get", k, <<>>, NoValue) : k \in Keys}
PutReqs == {Req("put", k, ws, v) : k \in Keys, ws \in WordLists, v \in Values}
DelReqs == {Req("del", k, <<>>, NoValue) : k \in Keys}
InvReqs == {Req("invalidate", "", ws, NoValue) : ws \in WordLists}
Requests == GetReqs \cup PutReqs \cup DelReqs \cup InvReqs

\* shared_ptr use_count of a token: the session's reference, one per job
\* closure still alive and one per posted completion not yet destroyed.
Refs(cr, os, t) ==
    (IF cr[t] THEN 1 ELSE 0)
    + Cardinality({o \in 1..Len(os) : os[o].tok = t /\ os[o].job})
    + Cardinality({o \in 1..Len(os) : os[o].tok = t /\ os[o].cb = "posted"})

UseCount(t) == Refs(callerRef, ops, t)

\* (mutant) the token goes when the session lets go of it.
LastRefOfSession(cr, os, t) == ~cr[t]

\* The release of a reference was the last one: the RedisToken is
\* destroyed, and ~Redis frees the connection.
LastRef(cr, os, t) == Refs(cr, os, t) = 0

\* (mutant) the completion goes to the worker the call was made on.
PostWorkerOfCall(o) == ops[o].caller

\* (mutant) the completion goes to one fixed worker of the process.
PostWorkerFixed(o) == "wk2"

\* The worker a job posts its completion to.
PostWorker(o) == m_pWorker[ops[o].tok]

\* (mutant) the completion is put in front of the ones already waiting.
EnqueueFront(q, o) == <<o>> \o q

\* Worker::execute(..., EXECUTE_QUEUED): the completion joins the queue's end.
Enqueue(q, o) == Append(q, o)

\* The completion a worker runs next.
NextCompletion(q) == Head(q)

\* `if (sThis.use_count() > 1) // The session is still alive`
SessionAlive(t) == UseCount(t) > 1

\* The job of operation o holds a buffer for its completion: put_value's
\* clone of the value (gwbuf_clone in the call), get_value's pValue when the
\* reply was a string (gwbuf_alloc_and_load in the job).
HasBuffer(o) == ops[o].kind = "put" \/ ops[o].out # NoValue

\* (mutant) put_value's completion frees the clone as get_value's frees its
\* buffer, when the session is gone.
CompletionFreesAsGet(o, alive) == IF HasBuffer(o) /\ ~alive THEN 1 ELSE 0

\* The calls of gwbuf_free on the buffer that the completion of o makes.
CompletionFrees(o, alive) ==
    IF ops[o].kind = "put" THEN 1
    ELSE IF HasBuffer(o) /\ ~alive THEN 1 ELSE 0

\* The completion of o passes its buffer to the callback.
CompletionHands(o, alive) == ops[o].kind = "get" /\ HasBuffer(o) /\ alive

\* The completion of operation o has run on its worker.
CompletionRun(o) == ops[o].cb \in {"invoked", "suppressed"}

\* Runs that start with the tokens in hand keep no record of the storage.
NoRecord == storages = <<>> /\ minted = <<>>

InitCommon ==
    /\ callerRef = [t \in Tokens |-> TRUE]
    /\ ops = <<>>
    /\ outq = [t \in Tokens |-> <<>>]
    /\ inq = [t \in Tokens |-> <<>>]
    /\ db = EmptyDb
    /\ wq = [w \in Workers |-> <<>>]
    /\ now = 0
    /\ raced = [t \in Tokens |-> FALSE]
    /\ crashed = FALSE
    /\ post = [t \in Tokens |-> <<>>]
    /\ dlv = [t \in Tokens |-> <<>>]
    /\ log = [m \in LogLines |-> 0]
    /\ last = [fn |-> "none"]
    /\ closes = [t \in Tokens |-> 0]

\* A call of get_value, put_value, del_value or invalidate on token t, made
\* on worker cw: the job closure (holding sThis) is queued on the thread
\* pool and the call returns CACHE_RESULT_PENDING.
Issue(t, req, cw) ==
    /\ ~crashed
    /\ callerRef[t]
    /\ ops' = Append(ops,
                [tok |-> t, kind |-> req.kind, key |-> req.key, words |-> req.words,
                 val |-> req.val, caller |-> cw, ret |-> CACHE_RESULT_PENDING,
                 alone |-> \A o \in OpIds : ops[o].tok = t => CompletionRun(o),
                 st |-> "queued", phase |-> "A", nq |-> 0, job |-> TRUE,
                 rv |-> "unset", out |-> NoValue, cb |-> "none", ncb |-> 0,
                 cbw |-> "none", held |-> FALSE,
                 sent |-> <<>>, seen |-> <<>>, src |-> 0, execSeen |-> 0,
                 dSeen |-> 0, odd |-> 0,
                 nfree |-> 0, freeW |-> "none", handed |-> FALSE,
                 between |-> {}, dbB |-> EmptyDb, db0 |-> db,
                 tried |-> 0, applied |-> 0,
                 flags |-> Arg(req, "flags"), soft_ttl |-> Arg(req, "soft_ttl"),
                 hard_ttl |-> Arg(req, "hard_ttl"),
                 indexed |-> UNION {db.hash[w] : w \in SeqToSet(req.words)},
                 tIssue |-> now, tExec |-> NoExpiry, tDone |-> NoExpiry])
    /\ UNCHANGED <<config, closes, callerRef, outq, inq, db, wq, now, raced,
                   crashed, post, dlv>>

\* The commands a job writes when it starts.
FirstCommands(o) ==
    LET op == ops[o]
    IN CASE op.kind = "get" -> GetCommands(o, op.key)
         [] op.kind = "put" -> PutCommands(o, op.key, op.words, op.val, m_ttl)
         [] op.kind = "del" -> DelCommands(o, op.key)
         [] op.kind = "invalidate" -> InvalidateCommandsA(o, op.words)

\* (mutant) the job posts its completion as soon as it has written its
\* commands, before reading any reply.
JobStartPosted(o) ==
    /\ ~crashed
    /\ ops[o].st = "queued"
    /\ LET t == ops[o].tok
       IN /\ outq' = [outq EXCEPT ![t] = @ \o FirstCommands(o)]
          /\ raced' = [raced EXCEPT ![t] =
                         @ \/ \E p \in OpIds : ops[p].tok = t /\ ops[p].st = "io"]
          /\ post' = [post EXCEPT ![t] = Append(@, o)]
    /\ ops' = [ops EXCEPT ![o].st = "io", ![o].cb = "posted",
                          ![o].sent = FirstCommands(o)]
    /\ wq' = [wq EXCEPT ![PostWorker(o)] = Enqueue(@, o)]
    /\ UNCHANGED <<config, closes, callerRef, inq, db, now, crashed, dlv>>

\* A pool thread starts the job of operation o.
JobStart(o) ==
    /\ ~crashed
    /\ ops[o].st = "queued"
    /\ LET t == ops[o].tok
       IN /\ outq' = [outq EXCEPT ![t] = @ \o FirstCommands(o)]
          /\ raced' = [raced EXCEPT ![t] =
                         @ \/ \E p \in OpIds : ops[p].tok = t /\ ops[p].st = "io"]
    /\ ops' = [ops EXCEPT ![o].st = "io", ![o].sent = FirstCommands(o)]
    /\ UNCHANGED <<config, closes, callerRef, inq, db, wq, now, crashed, post, dlv>>

\* For the record: the operation whose value a GET at the head of cs reads.
ReadFrom(cs, d, t) ==
    IF Head(cs).cmd = "GET" /\ Live(d, Head(cs).key, t) THEN d.by[Head(cs).key] ELSE 0

\* For the record: the replies of the store to the commands of a
\* transaction that it executed without an error.
Executed(replies) ==
    LET e == replies[Len(replies)]
    IN IF e.type = "ARRAY"
       THEN {j \in 1..Len(e.elems) : e.elems[j].type # "ERROR"}
       ELSE {}

\* For the record: the store has processed the HGETALLs of invalidate i and
\* not (yet) a transaction of it.
BetweenPhases(i) ==
    LET q == outq[ops[i].tok]
    IN /\ ops[i].kind = "invalidate"
       /\ ops[i].st = "io"
       /\ \A j \in 1..Len(q) : q[j].op = i => q[j].cmd # "HGETALL"
       /\ ops[i].phase = "A" \/ \E j \in 1..Len(q) : q[j].op = i

\* The server processes the next command (or transaction) of a connection
\* and answers with replies rs.
ServerAnswers(t, r, rs) ==
    /\ db' = r.db
    /\ outq' = [outq EXCEPT ![t] = SubSeq(@, r.n + 1, Len(@))]
    /\ inq' = [inq EXCEPT ![t] = @ \o rs]
    /\ ops' = [ops EXCEPT ![r.op].tExec = now,
                          ![r.op].odd = IF rs = r.replies THEN @ ELSE @ + 1,
                          ![r.op].execSeen = Len(ops),
                          ![r.op].src = ReadFrom(outq[t], db, now),
                          ![r.op].between =
                              IF ops[r.op].kind = "put"
                              THEN {i \in OpIds : BetweenPhases(i)} ELSE @,
                          ![r.op].tried = IF r.n > 1 THEN r.n - 2 ELSE @,
                          ![r.op].applied =
                              IF r.n > 1 THEN Cardinality(Executed(r.replies)) ELSE @,
                          ![r.op].dbB =
                              IF ops[r.op].kind = "invalidate" /\ ops[r.op].phase = "B"
                              THEN r.db ELSE @]
    /\ UNCHANGED <<config, closes, callerRef, wq, now, raced, crashed, post, dlv>>

\* The server processes the next command (or transaction) of a connection.
Server(t) ==
    /\ ~crashed
    /\ outq[t] # <<>>
    /\ ~Broken(inq[t])
    /\ LET r == ServerStep(outq[t], db, now)
       IN ServerAnswers(t, r, r.replies)

\* The end of every job: the completion (holding its own sThis, rv and the
\* value) is posted to the token's worker; n replies have been consumed.
Finish(o, rv, val, n) ==
    LET t == ops[o].tok
    IN /\ ops' = [ops EXCEPT ![o].st = "end", ![o].cb = "posted",
                             ![o].rv = rv, ![o].out = val,
                             ![o].seen = @ \o Taken(inq[t], n)]
       /\ inq' = [inq EXCEPT ![t] = After(@, n)]
       /\ wq' = [wq EXCEPT ![PostWorker(o)] = Enqueue(@, o)]
       /\ post' = [post EXCEPT ![t] = Append(@, o)]
       /\ UNCHANGED <<config, closes, callerRef, outq, db, now, raced, crashed, dlv>>

Reading(o, kind) == ~crashed /\ ops[o].st = "io" /\ ops[o].kind = kind

\* get_value's job once the reply to GET is there.
GetJob(o) ==
    /\ Reading(o, "get")
    /\ Readable(inq[ops[o].tok], 1)
    /\ LET r == GetResult(Taken(inq[ops[o].tok], 1)[1])
       IN Finish(o, r.rv, r.val, 1)

\* put_value's job once the replies it reads are there.
PutJob(o) ==
    /\ Reading(o, "put")
    /\ Readable(inq[ops[o].tok], 1)
    /\ LET q == inq[ops[o].tok]
           n == Len(ops[o].words)
           need == PutNeeds(Taken(q, 1), n)
           rs == Taken(q, need)
       IN /\ Readable(q, need)
          /\ PutResult(rs, n) \in Results
          /\ Finish(o, PutResult(rs, n), NoValue, need)

\* put_value's job in a debug build, when one of its mxb_asserts fails.
PutAbort(o) ==
    /\ Reading(o, "put")
    /\ Readable(inq[ops[o].tok], 1)
    /\ LET q == inq[ops[o].tok]
           n == Len(ops[o].words)
           need == PutNeeds(Taken(q, 1), n)
       IN /\ Readable(q, need)
          /\ PutAsserts(Taken(q, need), n)
    /\ crashed' = TRUE
    /\ UNCHANGED <<config, closes, callerRef, ops, outq, inq, db, wq, now, raced,
                   post, dlv>>

\* put_value's job without assertions, when it indexes the reply to EXEC
\* where that reply has no element: what it reads there is anything, so the
\* comparison with "OK" goes either way (or the process dies, as in PutAbort).
PutUndefined(o) ==
    /\ Reading(o, "put")
    /\ Readable(inq[ops[o].tok], 1)
    /\ LET q == inq[ops[o].tok]
           n == Len(ops[o].words)
           need == PutNeeds(Taken(q, 1), n)
       IN /\ Readable(q, need)
          /\ PutResult(Taken(q, need), n) = "UB"
          /\ \E rv \in ResultsOf("put") : Finish(o, rv, NoValue, need)

\* del_value's job once the reply to DEL is there.
DelJob(o) ==
    /\ Reading(o, "del")
    /\ Readable(inq[ops[o].tok], 1)
    /\ Finish(o, DelResult(Taken(inq[ops[o].tok], 1)[1]), NoValue, 1)

\* invalidate's job after phase A found keys: the commands of phase B are
\* written and the job goes on to read their replies.
InvalidateContinue(o, hdels) ==
    LET t == ops[o].tok
    IN /\ outq' = [outq EXCEPT ![t] = @ \o InvalidateCommandsB(o, hdels)]
       /\ inq' = [inq EXCEPT ![t] = After(@, Len(ops[o].words))]
       /\ ops' = [ops EXCEPT ![o].phase = "B", ![o].nq = InvalidateQueued(hdels),
                             ![o].sent = @ \o InvalidateCommandsB(o, hdels),
                             ![o].seen = Taken(inq[t], Len(ops[o].words))]
       /\ UNCHANGED <<config, closes, callerRef, db, wq, now, raced, crashed, post, dlv>>

\* invalidate's job, phase A, once the replies to its HGETALLs are there:
\* with keys found it writes phase B, without it is done.
InvalidateJobA(o) ==
    /\ Reading(o, "invalidate")
    /\ ops[o].phase = "A"
    /\ LET t == ops[o].tok
           n == Len(ops[o].words)
           hdels == HdelArgvs(ops[o].words, Taken(inq[t], n), 1)
       IN /\ Readable(inq[t], n)
          /\ IF PhaseBNeeded(hdels)
             THEN InvalidateContinue(o, hdels)
             ELSE Finish(o, CACHE_RESULT_OK, NoValue, n)

\* invalidate's job, phase B, once the replies it reads are there.
InvalidateJobB(o) ==
    /\ Reading(o, "invalidate")
    /\ ops[o].phase = "B"
    /\ Readable(inq[ops[o].tok], 1)
    /\ LET q == inq[ops[o].tok]
           nq == ops[o].nq
           need == InvalidateNeedsB(Taken(q, 1), nq)
           rs == Taken(q, need)
       IN /\ Readable(q, need)
          /\ InvalidateResultB(rs, nq) \in Results
          /\ Finish(o, InvalidateResultB(rs, nq), NoValue, need)

\* invalidate's job in a debug build, when one of its mxb_asserts fails; a
\* build without assertions can die at the same place when it indexes a
\* reply that has no elements.
InvalidateAbort(o) ==
    /\ Reading(o, "invalidate")
    /\ ops[o].phase = "B"
    /\ Readable(inq[ops[o].tok], 1)
    /\ LET q == inq[ops[o].tok]
           nq == ops[o].nq
           need == InvalidateNeedsB(Taken(q, 1), nq)
       IN /\ Readable(q, need)
          /\ InvalidateAsserts(Taken(q, need), nq)
    /\ crashed' = TRUE
    /\ UNCHANGED <<config, closes, callerRef, ops, outq, inq, db, wq, now, raced,
                   post, dlv>>

\* invalidate's job without assertions, when it indexes the reply to EXEC
\* where that reply has no element: the element is fetched and not used, so
\* the job goes on with rv as it is.
InvalidateUndefined(o) ==
    /\ Reading(o, "invalidate")
    /\ ops[o].phase = "B"
    /\ Readable(inq[ops[o].tok], 1)
    /\ LET q == inq[ops[o].tok]
           nq == ops[o].nq
           need == InvalidateNeedsB(Taken(q, 1), nq)
       IN /\ Readable(q, need)
          /\ InvalidateResultB(Taken(q, need), nq) = "UB"
          /\ Finish(o, CACHE_RESULT_OK, NoValue, need)

\* The pool destroys the job closure, and with it the job's sThis, some
\* time after the job has posted its completion.
JobRelease(o) ==
    /\ ~crashed
    /\ ops[o].job
    /\ ops[o].st = "end"
    /\ ops' = [ops EXCEPT ![o].job = FALSE]
    /\ UNCHANGED <<config, callerRef, outq, inq, db, wq, now, raced,
                   crashed, post, dlv>>
    /\ closes' = [closes EXCEPT ![ops[o].tok] =
                    IF LastRef(callerRef', ops', ops[o].tok) THEN @ + 1 ELSE @]

\* Worker w runs the completion at the head of its queue: the callback is
\* invoked when the token is referenced by more than the completion itself;
\* the completion is destroyed afterwards, and its sThis with it.
Deliver(w) ==
    /\ ~crashed
    /\ wq[w] # <<>>
    /\ LET o == NextCompletion(wq[w])
           t == ops[o].tok
       IN /\ ops' = [ops EXCEPT ![o].cb = IF SessionAlive(t) THEN "invoked" ELSE "suppressed",
                                ![o].held = callerRef[t],
                                ![o].ncb = IF SessionAlive(t) THEN @ + 1 ELSE @,
                                ![o].cbw = w,
                                ![o].nfree = @ + CompletionFrees(o, SessionAlive(t)),
                                ![o].freeW = IF CompletionFrees(o, SessionAlive(t)) > 0
                                             THEN w ELSE @,
                                ![o].handed = CompletionHands(o, SessionAlive(t)),
                                ![o].dSeen = Len(ops),
                                ![o].tDone = now]
          /\ wq' = [wq EXCEPT ![w] = SelectSeq(@, LAMBDA x : x # o)]
          /\ dlv' = [dlv EXCEPT ![t] = Append(@, o)]
          /\ UNCHANGED <<config, callerRef, outq, inq, db, now, raced, crashed, post>>
          /\ closes' = [closes EXCEPT ![t] =
                          IF LastRef(callerRef', ops', t) THEN @ + 1 ELSE @]

\* The session drops its reference to the token.
DropRef(t) ==
    /\ ~crashed
    /\ callerRef[t]
    /\ callerRef' = [callerRef EXCEPT ![t] = FALSE]
    /\ UNCHANGED <<config, ops, outq, inq, db, wq, now, raced, crashed,
                   post, dlv>>
    /\ closes' = [closes EXCEPT ![t] =
                    IF LastRef(callerRef', ops', t) THEN @ + 1 ELSE @]

\* A millisecond passes.
Tick ==
    /\ ~crashed
    /\ now < MaxTime
    /\ now' = now + 1
    /\ UNCHANGED <<config, closes, callerRef, ops, outq, inq, db, wq, raced,
                   crashed, post, dlv>>

\* RedisStorage::create(name, config, arguments)
Create(cfg, arguments) ==
    LET r == CreateResult(cfg, arguments)
    IN /\ ~crashed
       /\ storages' = storages \o r.storage
       /\ log' = Logged(log, CreateWarnings(cfg) \o r.log)
       /\ last' = [fn |-> "create", config |-> cfg, arguments |-> arguments,
                   ret |-> IF r.storage = <<>> THEN 0 ELSE Len(storages) + 1]
       /\ UNCHANGED <<closes, m_ttl, m_pWorker, created, minted, callerRef, ops, outq,
                      inq, db, wq, now, raced, crashed, post, dlv>>

\* What redisConnect(host, port) can return: a context that is connected, a
\* context whose err is set (nothing listens there, the host does not
\* resolve, the port is no port), or no context at all.
Connects(host, port) ==
    IF port <= 65535 THEN {"connected", "err", "null"} ELSE {"err", "null"}

\* RedisToken::RedisToken for a token of storage i constructed on worker w.
RedisTokenCtor(i, pRedis, w, ttl) ==
    [storage |-> i, m_redis |-> pRedis, m_pWorker |-> w, m_ttl |-> ttl]

\* RedisStorage::create_token on storage i, called on worker w; pRedis is
\* what redisConnect returned, alloc whether the token could be allocated.
CreateToken(i, w, pRedis, alloc) ==
    LET st == storages[i]
        rv == pRedis # "null" /\ alloc
    IN /\ ~crashed
       /\ pRedis \in Connects(st.m_host, st.m_port)
       /\ minted' = IF rv
                    THEN Append(minted, RedisTokenCtor(i, pRedis, w, st.m_ttl))
                    ELSE minted
       /\ log' = Logged(log, IF pRedis = "null" THEN <<"E_HANDLE">> ELSE <<>>)
       /\ last' = [fn |-> "create_token", storage |-> i, pRedis |-> pRedis, ret |-> rv]
       /\ UNCHANGED <<closes, m_ttl, m_pWorker, created, storages, callerRef, ops, outq,
                      inq, db, wq, now, raced, crashed, post, dlv>>

\* A call of one of the methods the storage does not support.
CallUnsupported(fn) ==
    /\ ~crashed
    /\ last' = [fn |-> fn, ret |-> UnsupportedResult(fn)]
    /\ UNCHANGED <<closes, m_ttl, m_pWorker, created, storages, minted, log, callerRef,
                   ops, outq, inq, db, wq, now, raced, crashed, post, dlv>>

\* A call of Redis::expect_status on the connection of token t.
CallExpectStatus(t, zValue) ==
    /\ ~crashed
    /\ Readable(inq[t], 1)
    /\ last' = [fn |-> "expect_status", zValue |-> zValue,
                read |-> Taken(inq[t], 1),
                ret |-> ExpectStatus(Taken(inq[t], 1)[1], zValue)]
    /\ inq' = [inq EXCEPT ![t] = After(@, 1)]
    /\ UNCHANGED <<closes, m_ttl, m_pWorker, created, storages, minted, log, callerRef,
                   ops, outq, db, wq, now, raced, crashed, post, dlv>>

\* A call of Redis::expect_n_status on the connection of token t: the loop
\* makes its n calls of expect_status whatever they return.
CallExpectNStatus(t, n, zValue) ==
    /\ ~crashed
    /\ Readable(inq[t], n)
    /\ LET rs == Taken(inq[t], n)
       IN last' = [fn |-> "expect_n_status", n |-> n, zValue |-> zValue,
                   read |-> rs,
                   each |-> [i \in 1..n |-> ExpectStatus(rs[i], zValue)],
                   ret |-> ExpectNStatus(rs, zValue)]
    /\ inq' = [inq EXCEPT ![t] = After(@, n)]
    /\ UNCHANGED <<closes, m_ttl, m_pWorker, created, storages, minted, log, callerRef,
                   ops, outq, db, wq, now, raced, crashed, post, dlv>>

\* ------------------------------------------------- one session, one at a time
\* The session of token s1 runs on the worker that created the token and
\* issues an operation only after the callback of the one before, when the
\* pool thread has let go of that job.
SeqToken == "s1"

Idle(t) == \A o \in OpIds : ops[o].tok = t => ops[o].cb = "invoked" /\ ~ops[o].job

Init ==
    /\ InitCommon
    /\ NoRecord
    /\ m_ttl = TtlMs
    /\ m_pWorker = [t \in Tokens |-> "wk1"]
    /\ created = m_pWorker

CallSeq(reqs, max) ==
    \E req \in reqs :
        /\ Len(ops) < max
        /\ Idle(SeqToken)
        /\ Issue(SeqToken, req, m_pWorker[SeqToken])

PoolStart == \E o \in OpIds : JobStart(o)
ServerRun == \E t \in Tokens : Server(t)
GetRead == \E o \in OpIds : GetJob(o)
PutRead == \E o \in OpIds : PutJob(o)
PutAssert == \E o \in OpIds : PutAbort(o)
DelRead == \E o \in OpIds : DelJob(o)
InvalidateReadA == \E o \in OpIds : InvalidateJobA(o)
InvalidateReadB == \E o \in OpIds : InvalidateJobB(o)
PoolRelease == \E o \in OpIds : JobRelease(o)
WorkerRun == \E w \in Workers : Deliver(w)

JobSteps ==
    \/ PoolStart
    \/ ServerRun
    \/ GetRead
    \/ PutRead
    \/ DelRead
    \/ InvalidateReadA
    \/ InvalidateReadB
    \/ PoolRelease
    \/ WorkerRun

\* Spec: every request over two keys, two values and the word lists.
Call == CallSeq(Requests, MaxOps)

Next ==
    \/ Call
    \/ JobSteps

Spec == Init /\ [][Next]_vars

\* SpecInv: longer runs over requests with one value, to reach stores with
\* several keys indexed under several words.
InvRequests ==
    GetReqs
    \cup {Req("put", k, ws, "A") : k \in Keys, ws \in {<<>>, <<"t1">>, <<"t1", "t2">>}}
    \cup {Req("del", "q1", <<>>, NoValue)}
    \cup {Req("invalidate", "", ws, NoValue) : ws \in WordLists \ {<<>>}}

CallInv == CallSeq(InvRequests, MaxInvOps)

NextInv ==
    \/ CallInv
    \/ JobSteps

SpecInv == Init /\ [][NextInv]_vars

\* The pool threads, the server and the workers keep running.
FairSpecInv == SpecInv /\ WF_vars(JobSteps)

\* SpecTTL: puts without words and gets of one key while the clock runs.
TtlRequests ==
    {Req("put", "q1", <<>>, v) : v \in Values} \cup {Req("get", "q1", <<>>, NoValue)}

CallTtl == CallSeq(TtlRequests, MaxTtlOps)

NextTTL ==
    \/ CallTtl
    \/ PoolStart
    \/ ServerRun
    \/ GetRead
    \/ PutRead
    \/ PoolRelease
    \/ WorkerRun
    \/ Tick

SpecTTL == Init /\ [][NextTTL]_vars

\* ------------------------------------------- SpecAsync: calls without waiting
\* A job that shares its connection with another job at the same time races
\* with it on the redisContext: whatever it reads, it may end with any result.
RaceResult(o) ==
    /\ ~crashed
    /\ ops[o].st = "io"
    /\ raced[ops[o].tok]
    /\ \E rv \in ResultsOf(ops[o].kind) : \E val \in Values \cup {NoValue} :
          /\ val # NoValue => ops[o].kind = "get" /\ rv = CACHE_RESULT_OK
          /\ Finish(o, rv, val, 0)

\* ... or bring the process down.
RaceCrash(o) ==
    /\ ~crashed
    /\ ops[o].st = "io"
    /\ raced[ops[o].tok]
    /\ crashed' = TRUE
    /\ UNCHANGED <<config, closes, callerRef, ops, outq, inq, db, wq, now, raced, post, dlv>>

AsyncRequests ==
    {Req("get", "q1", <<>>, NoValue), Req("put", "q1", <<"t1">>, "A"),
     Req("invalidate", "", <<"t1">>, NoValue)}

\* The worker the session runs on, and so makes its calls on.
SessionWorker == "wk1"

\* The token was constructed on either worker.
InitAsync ==
    /\ InitCommon
    /\ NoRecord
    /\ m_ttl = TtlMs
    /\ \E w \in Workers : m_pWorker = [t \in Tokens |-> IF t = SeqToken THEN w ELSE "wk1"]
    /\ created = m_pWorker

\* The session calls from its worker, whether or not earlier calls are done.
CallAsync ==
    \E req \in AsyncRequests :
        /\ Len(ops) < MaxAsyncOps
        /\ Issue(SeqToken, req, SessionWorker)

RacedResult == \E o \in OpIds : RaceResult(o)
RacedCrash == \E o \in OpIds : RaceCrash(o)
SessionClose == DropRef(SeqToken)

NextAsync ==
    \/ CallAsync
    \/ PoolStart
    \/ ServerRun
    \/ GetRead
    \/ PutRead
    \/ InvalidateReadA
    \/ InvalidateReadB
    \/ PoolRelease
    \/ WorkerRun
    \/ RacedResult
    \/ RacedCrash
    \/ SessionClose

SpecAsync == InitAsync /\ [][NextAsync]_vars

\* ------------------------------- SpecFault: a store that fails or misanswers
\* The replies a store can put in the place of the expected one.
OddReplies ==
    {Nil, Error("ERR"), Integer(2), Integer(0 - 1), Status("NO"), String("A"),
     Array(<<>>), Array(<<Integer(1), Error("ERR")>>),
     Array(<<Integer(1), Status("OK"), Integer(1)>>)}

\* The connection of token t fails while an operation is using it: of the
\* replies not yet read the first k can still be read, the commands not yet
\* processed are lost.
ConnFail(t) ==
    /\ ~crashed
    /\ ~Broken(inq[t])
    /\ \E o \in OpIds : ops[o].tok = t /\ ops[o].st = "io"
    /\ \E k \in 0..Len(inq[t]) :
          inq' = [inq EXCEPT ![t] = Append(SubSeq(@, 1, k), Fail)]
    /\ outq' = [outq EXCEPT ![t] = <<>>]
    /\ UNCHANGED <<config, closes, callerRef, ops, db, wq, now, raced, crashed, post, dlv>>

\* The replies of another shape the operations up to o were given.
RECURSIVE OddSoFar(_)
OddSoFar(o) == IF o = 0 THEN 0 ELSE ops[o].odd + OddSoFar(o - 1)

\* The server processes the next command (or transaction) of a connection
\* and answers one of its commands with a reply of another shape.
ServerOdd(t) ==
    /\ ~crashed
    /\ outq[t] # <<>>
    /\ ~Broken(inq[t])
    /\ OddSoFar(Len(ops)) < MaxOdd
    /\ LET r == ServerStep(outq[t], db, now)
       IN \E i \in 1..Len(r.replies) : \E f \in OddReplies :
            /\ f # r.replies[i]
            /\ ServerAnswers(t, r, [r.replies EXCEPT ![i] = f])

FaultRequests ==
    {Req("get", "q1", <<>>, NoValue), Req("put", "q1", <<"t1">>, "A"),
     Req("del", "q1", <<>>, NoValue), Req("invalidate", "", <<"t1">>, NoValue)}

\* The storage was configured with or without a hard ttl.
InitFault ==
    /\ InitCommon
    /\ NoRecord
    /\ m_ttl \in {0, TtlMs}
    /\ m_pWorker = [t \in Tokens |-> "wk1"]
    /\ created = m_pWorker

CallFault == CallSeq(FaultRequests, MaxFaultOps)
ConnectionFails == ConnFail(SeqToken)
ServerMisanswers == ServerOdd(SeqToken)
PutWild == \E o \in OpIds : PutUndefined(o)
InvalidateAssert == \E o \in OpIds : InvalidateAbort(o)
InvalidateWild == \E o \in OpIds : InvalidateUndefined(o)

NextFault ==
    \/ CallFault
    \/ JobSteps
    \/ ConnectionFails
    \/ ServerMisanswers
    \/ PutAssert
    \/ PutWild
    \/ InvalidateAssert
    \/ InvalidateWild

SpecFault == InitFault /\ [][NextFault]_vars

\* ------------------- SpecFaultInv: invalidation of two words on a failing store
\* The server answers an HGETALL with the fields of the hash behind a field
\* that is not a string.
ServerOddField(t) ==
    /\ ~crashed
    /\ outq[t] # <<>>
    /\ ~Broken(inq[t])
    /\ OddSoFar(Len(ops)) < MaxOdd
    /\ Head(outq[t]).cmd = "HGETALL"
    /\ LET r == ServerStep(outq[t], db, now)
       IN ServerAnswers(t, r,
              <<Array(<<Integer(1), String("1")>> \o r.replies[1].elems)>>)

FaultInvRequests ==
    {Req("put", "q1", <<"t1", "t2">>, "A"),
     Req("invalidate", "", <<"t1", "t2">>, NoValue)}

CallFaultInv == CallSeq(FaultInvRequests, MaxFaultInvOps)
ServerMixesFields == ServerOddField(SeqToken)

NextFaultInv ==
    \/ CallFaultInv
    \/ PoolStart
    \/ ServerRun
    \/ PutRead
    \/ InvalidateReadA
    \/ InvalidateReadB
    \/ PoolRelease
    \/ WorkerRun
    \/ ConnectionFails
    \/ ServerMisanswers
    \/ ServerMixesFields
    \/ PutAssert
    \/ PutWild
    \/ InvalidateAssert
    \/ InvalidateWild

SpecFaultInv == Init /\ [][NextFaultInv]_vars

\* ------------------------------------- SpecRedis: the helpers of class Redis
\* The replies a connection can hold for the helpers to read.
ExpectReplies ==
    {Status("OK"), Status("QUEUED"), Error("ERR"), Integer(1), Nil, String("OK"),
     Array(<<>>)}

RECURSIVE RepliesUpTo(_)
RepliesUpTo(n) ==
    IF n = 0 THEN {<<>>}
    ELSE RepliesUpTo(n - 1)
         \cup {Append(q, r) : q \in RepliesUpTo(n - 1), r \in ExpectReplies}

\* A connection with some replies waiting, failed behind them or not.
InitRedis ==
    /\ NoRecord
    /\ m_ttl = TtlMs
    /\ m_pWorker = [t \in Tokens |-> "wk1"]
    /\ created = m_pWorker
    /\ callerRef = [t \in Tokens |-> TRUE]
    /\ ops = <<>>
    /\ outq = [t \in Tokens |-> <<>>]
    /\ db = EmptyDb
    /\ wq = [w \in Workers |-> <<>>]
    /\ now = 0
    /\ raced = [t \in Tokens |-> FALSE]
    /\ crashed = FALSE
    /\ post = [t \in Tokens |-> <<>>]
    /\ dlv = [t \in Tokens |-> <<>>]
    /\ log = [m \in LogLines |-> 0]
    /\ last = [fn |-> "none"]
    /\ closes = [t \in Tokens |-> 0]
    /\ \E q \in RepliesUpTo(MaxReplies) : \E failed \in BOOLEAN :
          inq = [t \in Tokens |->
                   IF t = SeqToken THEN (IF failed THEN Append(q, Fail) ELSE q)
                   ELSE <<>>]

Expected == {"OK", "QUEUED"}

ExpectsStatus == \E z \in Expected : CallExpectStatus(SeqToken, z)
ExpectsNStatus ==
    \E n \in 0..MaxReplies : \E z \in Expected : CallExpectNStatus(SeqToken, n, z)

NextRedis ==
    \/ ExpectsStatus
    \/ ExpectsNStatus

SpecRedis == InitRedis /\ [][NextRedis]_vars

\* ------------------------------------- SpecMulti: two sessions on one store
\* The session of s1 invalidates and reads, the session of s2 stores,
\* deletes and invalidates; each calls when its own previous call is done.
MultiRequests(t) ==
    IF t = SeqToken
    THEN {Req("invalidate", "", <<"t1">>, NoValue), Req("get", "q1", <<>>, NoValue)}
    ELSE {Req("put", "q1", <<"t1">>, "A"), Req("del", "q1", <<>>, NoValue),
          Req("invalidate", "", <<"t1">>, NoValue)}

CallMulti ==
    \E t \in Tokens : \E req \in MultiRequests(t) :
        /\ Len(ops) < MaxMultiOps
        /\ Idle(t)
        /\ Issue(t, req, m_pWorker[t])

NextMulti ==
    \/ CallMulti
    \/ JobSteps

SpecMulti == Init /\ [][NextMulti]_vars

\* ------------------ SpecBetween: one session stores while another invalidates
\* The session of s1 invalidates one word and reads, the session of s2
\* stores two keys under that word; each calls when its previous call is done.
BetweenRequests(t) ==
    IF t = SeqToken
    THEN {Req("invalidate", "", <<"t1">>, NoValue), Req("get", "q1", <<>>, NoValue)}
    ELSE {Req("put", "q2", <<"t1">>, "A"), Req("put", "q1", <<"t1", "t2">>, "B")}

CallBetween ==
    \E t \in Tokens : \E req \in BetweenRequests(t) :
        /\ Len(ops) < MaxBetweenOps
        /\ Idle(t)
        /\ Issue(t, req, m_pWorker[t])

NextBetween ==
    \/ CallBetween
    \/ PoolStart
    \/ ServerRun
    \/ GetRead
    \/ PutRead
    \/ InvalidateReadA
    \/ InvalidateReadB
    \/ PoolRelease
    \/ WorkerRun

SpecBetween == Init /\ [][NextBetween]_vars

\* ------------- SpecVisible: what one session sees of the other session's put
\* As SpecBetween, in shorter runs, with a storage configured with or without
\* a hard ttl.
CallVisible ==
    \E t \in Tokens : \E req \in BetweenRequests(t) :
        /\ Len(ops) < MaxVisibleOps
        /\ Idle(t)
        /\ Issue(t, req, m_pWorker[t])

NextVisible ==
    \/ CallVisible
    \/ PoolStart
    \/ ServerRun
    \/ GetRead
    \/ PutRead
    \/ InvalidateReadA
    \/ InvalidateReadB
    \/ PoolRelease
    \/ WorkerRun

SpecVisible == InitFault /\ [][NextVisible]_vars

\* ----------------------------------------------- SpecCreate: the factory
CreateConfigs ==
    {Config(TtlMs, TtlMs, 0, 0), Config(0, TtlMs, 0, 0), Config(TtlMs, TtlMs, 1, 0),
     Config(TtlMs, TtlMs, 0, 1), Config(0, TtlMs, 1, 1)}

\* "nohost", "h:0", "h:-1", "h:1", "h:65535", "h:65536", "h:x", "h:1:2", "h:", ""
CreateArguments ==
    {<<"n", "o", "h", "o", "s", "t">>,
     <<"h", ":", "0">>,
     <<"h", ":", "-", "1">>,
     <<"h", ":", "1">>,
     <<"h", ":", "6", "5", "5", "3", "5">>,
     <<"h", ":", "6", "5", "5", "3", "6">>,
     <<"h", ":", "x">>,
     <<"h", ":", "1", ":", "2">>,
     <<"h", ":">>,
     <<>>}

InitCreate ==
    /\ InitCommon
    /\ NoRecord
    /\ m_ttl = TtlMs
    /\ m_pWorker = [t \in Tokens |-> "wk1"]
    /\ created = m_pWorker

\* The calls of create so far: each made a storage or logged an error.
Creates == Len(storages) + log["E_HOST_PORT"] + log["E_FORMAT"]

CallCreate ==
    \E cfg \in CreateConfigs : \E a \in CreateArguments :
        /\ Creates < MaxCreates
        /\ Create(cfg, a)

CallCreateToken ==
    \E i \in 1..Len(storages) : \E pRedis \in {"connected", "err", "null"} :
      \E alloc \in BOOLEAN :
        /\ Len(minted) + log["E_HANDLE"] < MaxTokens
        /\ CreateToken(i, "wk1", pRedis, alloc)

NextCreate ==
    \/ CallCreate
    \/ CallCreateToken

SpecCreate == InitCreate /\ [][NextCreate]_vars

CallUnsupportedAny == \E fn \in Unsupported : CallUnsupported(fn)

\* ------------------------------- SpecCfg: one storage, configured either way
CfgConfigs == {Config(TtlMs, TtlMs, 0, 0), Config(0, TtlMs, 0, 0), Config(TtlMs, 0, 0, 0)}

\* put_value without words and with a word twice, get_value with its ttl
\* arguments.
CfgRequests ==
    {Req("put", "q1", <<>>, "A"), Req("put", "q1", <<"t2", "t1", "t2">>, "B")}
    \cup {GetReqWith("q1", a[1], a[2], a[3]) : a \in {<<0, 0, 0>>, <<1, 0, 1>>}}

\* create(name, cfg, "h:1") has returned a storage and create_token, called
\* on wk1, the token of the session.
InitCfg ==
    /\ InitCommon
    /\ \E cfg \in CfgConfigs :
          storages = CreateResult(cfg, <<"h", ":", "1">>).storage
    /\ minted = <<RedisTokenCtor(1, "connected", "wk1", storages[1].m_ttl)>>
    /\ m_ttl = minted[1].m_ttl
    /\ m_pWorker = [t \in Tokens |-> minted[1].m_pWorker]
    /\ created = m_pWorker

CallCfg == CallSeq(CfgRequests, MaxCfgOps)

NextCfg ==
    \/ CallCfg
    \/ PoolStart
    \/ ServerRun
    \/ GetRead
    \/ PutRead
    \/ PutAssert
    \/ PoolRelease
    \/ WorkerRun
    \/ Tick

SpecCfg == InitCfg /\ [][NextCfg]_vars

\* ------------------- SpecUnsupported: the methods the storage does not support
\* They are called at any time while the session stores and deletes.
UnsupportedRequests ==
    {Req("put", "q1", <<"t1">>, "A"), Req("del", "q1", <<>>, NoValue)}

CallWhileUnsupported == CallSeq(UnsupportedRequests, MaxUnsupportedOps)

NextUnsupported ==
    \/ CallWhileUnsupported
    \/ PoolStart
    \/ ServerRun
    \/ PutRead
    \/ PutAssert
    \/ DelRead
    \/ PoolRelease
    \/ WorkerRun
    \/ CallUnsupportedAny

SpecUnsupported == InitCfg /\ [][NextUnsupported]_vars

\* ------------------------------------------------------------------ claims
Delivered(o) == ops[o].cb = "invoked"
DeliveredAs(o, rv) == Delivered(o) /\ ops[o].rv = rv
IsOp(o, kind, k) == ops[o].kind = kind /\ ops[o].key = k
WordSet(o) == SeqToSet(ops[o].words)

\* C6: when put_value(k, W, v) has delivered OK and the next operation of
\* the token is get_value(k) (nothing deletes, invalidates or expires k in
\* between), the get delivers (OK, v') with v' = v.  Checked under Spec.
C6_PutThenGet ==
    \A g \in OpIds : \A k \in Keys :
        (/\ g > 1
         /\ IsOp(g - 1, "put", k) /\ DeliveredAs(g - 1, CACHE_RESULT_OK)
         /\ IsOp(g, "get", k) /\ Delivered(g))
        => ops[g].rv = CACHE_RESULT_OK /\ ops[g].out = ops[g - 1].val

\* A put that overwrites a value stored under two words, with an empty word
\* list, and is then read back.
C6_Witness ==
    \E g \in OpIds :
        /\ g > 2
        /\ IsOp(g - 2, "put", "q1") /\ ops[g - 2].words = <<"t1", "t2">>
        /\ ops[g - 2].val = "B" /\ DeliveredAs(g - 2, CACHE_RESULT_OK)
        /\ IsOp(g - 1, "put", "q1") /\ ops[g - 1].words = <<>>
        /\ ops[g - 1].val = "A" /\ DeliveredAs(g - 1, CACHE_RESULT_OK)
        /\ IsOp(g, "get", "q1") /\ DeliveredAs(g, CACHE_RESULT_OK) /\ ops[g].out = "A"

\* C7: when put_value(k, W) has delivered OK, a later invalidate of a word
\* list that shares a word with W has delivered OK, and k has not been put
\* again, every later get_value(k) delivers NOT_FOUND; for every key indexed
\* under the word, also a key put under several words.  Checked under SpecInv.
C7_InvalidateThenGet ==
    \A p, i, g \in OpIds : \A k \in Keys :
        (/\ p < i /\ i < g
         /\ IsOp(p, "put", k) /\ DeliveredAs(p, CACHE_RESULT_OK)
         /\ ops[i].kind = "invalidate" /\ DeliveredAs(i, CACHE_RESULT_OK)
         /\ WordSet(p) \cap WordSet(i) # {}
         /\ \A x \in (p + 1)..(g - 1) : ~IsOp(x, "put", k)
         /\ IsOp(g, "get", k) /\ Delivered(g))
        => ops[g].rv = CACHE_RESULT_NOT_FOUND

\* Two keys indexed under t1, one of them also under t2, invalidated by t1,
\* and the key put under both words is then not found.
C7_Witness ==
    /\ Len(ops) = 4
    /\ IsOp(1, "put", "q1") /\ ops[1].words = <<"t1">> /\ DeliveredAs(1, CACHE_RESULT_OK)
    /\ IsOp(2, "put", "q2") /\ ops[2].words = <<"t1", "t2">>
    /\ DeliveredAs(2, CACHE_RESULT_OK)
    /\ ops[3].kind = "invalidate" /\ ops[3].words = <<"t1">>
    /\ DeliveredAs(3, CACHE_RESULT_OK)
    /\ IsOp(4, "get", "q2") /\ DeliveredAs(4, CACHE_RESULT_NOT_FOUND)

\* No put_value of key k so far listed a word of ws.
NeverPutWith(k, ws) ==
    \A p \in OpIds : IsOp(p, "put", k) => WordSet(p) \cap SeqToSet(ws) = {}

\* The server is about to process a command of an invalidate on connection t.
InvalidateAtServer(t) ==
    /\ outq[t] # <<>>
    /\ ops[Head(outq[t]).op].kind = "invalidate"

\* C8: no step in which the server processes commands of invalidate(W)
\* changes the stored value (or its expiry) of a key that was never put
\* with a word of W; so a key put with an empty word list, or only under
\* other words, keeps its value.  Checked under SpecInv.
C8_InvalidateFrame ==
    [][\A t \in Tokens : \A k \in Keys :
         (/\ InvalidateAtServer(t)
          /\ outq'[t] # outq[t]
          /\ NeverPutWith(k, ops[Head(outq[t]).op].words))
         => db'.str[k] = db.str[k] /\ db'.exp[k] = db.exp[k]]_vars

\* An invalidate of t1 has deleted q1, and q2, put with an empty word list
\* before it, is still returned by the get that follows.
C8_Witness ==
    /\ Len(ops) = 4
    /\ IsOp(1, "put", "q1") /\ ops[1].words = <<"t1">> /\ DeliveredAs(1, CACHE_RESULT_OK)
    /\ IsOp(2, "put", "q2") /\ ops[2].words = <<>> /\ DeliveredAs(2, CACHE_RESULT_OK)
    /\ ops[3].kind = "invalidate" /\ ops[3].words = <<"t1">>
    /\ ops[3].phase = "B" /\ DeliveredAs(3, CACHE_RESULT_OK)
    /\ IsOp(4, "get", "q2") /\ DeliveredAs(4, CACHE_RESULT_OK) /\ ops[4].out = "A"
    /\ db.str["q1"] = NoValue

\* C9: del_value(k) delivers NOT_FOUND when k was never put, and again
\* NOT_FOUND when it directly follows another del_value(k); directly after
\* a put_value(k) that delivered OK it delivers OK.  Checked under Spec.
C9_DelIdempotent ==
    \A d \in OpIds : \A k \in Keys :
        (IsOp(d, "del", k) /\ Delivered(d))
        => /\ (\A p \in 1..(d - 1) : ~IsOp(p, "put", k))
                => ops[d].rv = CACHE_RESULT_NOT_FOUND
           /\ (d > 1 /\ IsOp(d - 1, "del", k))
                => ops[d].rv = CACHE_RESULT_NOT_FOUND
           /\ (d > 1 /\ IsOp(d - 1, "put", k) /\ DeliveredAs(d - 1, CACHE_RESULT_OK))
                => ops[d].rv = CACHE_RESULT_OK

\* put, del, del of one key: OK, OK, NOT_FOUND.
C9_Witness ==
    /\ Len(ops) = 3
    /\ IsOp(1, "put", "q2") /\ DeliveredAs(1, CACHE_RESULT_OK)
    /\ IsOp(2, "del", "q2") /\ DeliveredAs(2, CACHE_RESULT_OK)
    /\ IsOp(3, "del", "q2") /\ DeliveredAs(3, CACHE_RESULT_NOT_FOUND)

\* C1: every call returns PENDING, its callback is invoked at most once, and
\* (the session keeping its reference, the server answering every command it
\* is sent) again and again every operation issued so far has had its
\* callback invoked.  Checked under FairSpecInv; violated by the code.
C1_CallbackExactlyOnce ==
    /\ [](\A o \in OpIds : ops[o].ret = CACHE_RESULT_PENDING /\ ops[o].ncb <= 1)
    /\ []<>(\A o \in OpIds : Delivered(o))

\* A put_value(k, {}, v) that delivered OK, directly followed by a delivered
\* get_value(k).
PutGetPair(g, k) ==
    /\ g > 1
    /\ IsOp(g - 1, "put", k) /\ ops[g - 1].words = <<>>
    /\ DeliveredAs(g - 1, CACHE_RESULT_OK)
    /\ IsOp(g, "get", k) /\ Delivered(g)

\* C10 as claimed: with t0 the time the put's callback ran, a get that is
\* over before t0 + ttl delivers (OK, v), and a get issued after t0 + ttl
\* delivers NOT_FOUND.  Checked under SpecTTL; violated.
C10_ExpiryFromDelivery ==
    \A g \in OpIds : \A k \in Keys :
        PutGetPair(g, k)
        => /\ ops[g].tDone < ops[g - 1].tDone + m_ttl
                => ops[g].rv = CACHE_RESULT_OK /\ ops[g].out = ops[g - 1].val
           /\ ops[g].tIssue > ops[g - 1].tDone + m_ttl
                => ops[g].rv = CACHE_RESULT_NOT_FOUND

\* C10 amended: with tSET the time the server executed the put's SET (not
\* later than t0), a get whose GET the server executes before tSET + ttl
\* delivers (OK, v), and a get issued after t0 + ttl delivers NOT_FOUND.
\* Checked under SpecTTL.
C10_ExpiryFromSet ==
    \A g \in OpIds : \A k \in Keys :
        PutGetPair(g, k)
        => /\ ops[g - 1].tExec <= ops[g - 1].tDone
           /\ ops[g].tExec < ops[g - 1].tExec + m_ttl
                => ops[g].rv = CACHE_RESULT_OK /\ ops[g].out = ops[g - 1].val
           /\ ops[g].tIssue > ops[g - 1].tDone + m_ttl
                => ops[g].rv = CACHE_RESULT_NOT_FOUND

\* A get issued after the put's delivery time plus the ttl finds nothing.
C10_Witness ==
    \E g \in OpIds :
        /\ PutGetPair(g, "q1")
        /\ ops[g].tIssue > ops[g - 1].tDone + m_ttl
        /\ ops[g].rv = CACHE_RESULT_NOT_FOUND

\* ---------------------------------------------------- claims under SpecAsync
OpsOf(t) == {o \in OpIds : ops[o].tok = t}
UsingConnection(t) == {o \in OpsOf(t) : ops[o].st = "io"}
IsPrefix(a, b) == Len(a) <= Len(b) /\ SubSeq(b, 1, Len(a)) = a
InvokedOnly(q) == SelectSeq(q, LAMBDA o : ops[o].cb = "invoked")
Increasing(q) == \A i, j \in 1..Len(q) : i < j => q[i] < q[j]

\* C2: once the session has dropped its reference to the token, the callback
\* of an operation not yet delivered is never invoked: every callback that
\* was invoked ran while the session still held the token.
C2_NoCallbackAfterClose ==
    \A o \in OpIds : ops[o].cb = "invoked" => ops[o].held

C4_CallbackOnCreatingWorker ==
    /\ m_pWorker = created
    /\ \A o \in OpIds : ops[o].cb = "invoked" => ops[o].cbw = created[ops[o].tok]

\* A call made on the other worker had its callback on the creating worker.
C4_Witness ==
    \E o \in OpIds :
        /\ ops[o].cb = "invoked"
        /\ ops[o].caller # created[ops[o].tok]
        /\ ops[o].cbw = created[ops[o].tok]

\* C5 (as stated): the callbacks of a token's operations are invoked in the
\* order the operations were called.
C5_CallbackInCallOrder ==
    \A t \in Tokens : Increasing(InvokedOnly(dlv[t]))

\* C5 (amended): the completions of a token's operations run in the order in
\* which the jobs posted them to the worker.
C5_CallbackInPostOrder ==
    \A t \in Tokens : IsPrefix(dlv[t], post[t])

\* Two callbacks of one token were invoked, the later call's first.
C5_Witness ==
    \E t \in Tokens :
        /\ Len(dlv[t]) = 2
        /\ InvokedOnly(dlv[t]) = dlv[t]
        /\ dlv[t][1] > dlv[t][2]

\* C22 as stated: every callback runs on the worker its call was made on,
\* also for a call made on a worker other than the creating one.
C22_CallbackOnCallersWorker ==
    \A o \in OpIds : ops[o].cb = "invoked" => ops[o].cbw = ops[o].caller

\* C22: the callback runs on the worker the call was made on exactly when
\* the call was made on the worker that created the token; a call made on
\* another worker has its callback on the creating worker instead.
C22_CallersWorkerWhenCreator ==
    \A o \in OpIds :
        ops[o].cb = "invoked" =>
            /\ ops[o].cbw = ops[o].caller <=> ops[o].caller = created[ops[o].tok]
            /\ ops[o].cbw # ops[o].caller => ops[o].cbw = created[ops[o].tok]

\* Both calls of a session were made on a worker other than the creating
\* one, and neither callback ran on the worker of its call.
C22_Witness ==
    /\ Len(ops) = 2
    /\ \A o \in OpIds :
          /\ ops[o].cb = "invoked"
          /\ ops[o].caller # created[ops[o].tok]
          /\ ops[o].cbw # ops[o].caller

\* ---------------------------------------------------- claims under SpecFault
Ended(o) == ops[o].st = "end"
SetsSent(o) == SelectSeq(ops[o].sent, LAMBDA c : c.cmd = "SET")

\* C11: with a ttl of 0, every SET that put_value writes carries no PX
\* option, and no SET ever carries PX 0.
C11_NoPxWhenTtlZero ==
    \A o \in OpIds : \A i \in 1..Len(SetsSent(o)) :
        /\ SetsSent(o)[i].px # 0
        /\ m_ttl = 0 => SetsSent(o)[i].px = NoPx

\* C13: when the reply put_value reads for MULTI is not the status "OK", the
\* callback of the put receives ERROR.
C13_MultiNotOkIsError ==
    \A o \in OpIds :
        (/\ ops[o].kind = "put"
         /\ Delivered(o)
         /\ ops[o].seen # <<>>
         /\ ops[o].seen[1] # Status("OK"))
        => ops[o].rv = CACHE_RESULT_ERROR

\* A read of operation o failed: the connection failed or was closed.
ReadFailed(o) == \E i \in 1..Len(ops[o].seen) : ops[o].seen[i] = Fail

\* C14: an operation that had a read of a reply fail (at whichever reply)
\* hands ERROR to its callback.
C14_ReadFailureIsError ==
    \A o \in OpIds :
        Delivered(o) /\ ReadFailed(o) => ops[o].rv = CACHE_RESULT_ERROR

\* The replies operation o read for its transaction: all of a put's, those
\* after the HGETALL replies of an invalidate.
TxReplies(o) ==
    IF ops[o].kind = "put" THEN ops[o].seen
    ELSE IF ops[o].kind = "invalidate" /\ ops[o].phase = "B"
         THEN SubSeq(ops[o].seen, Len(ops[o].words) + 1, Len(ops[o].seen))
         ELSE <<>>

\* MULTI was answered OK, the reply to EXEC was read, and a reply between
\* them is not the status QUEUED.
QueuedMissing(rs) ==
    /\ Len(rs) >= 3
    /\ rs[1] = Status("OK")
    /\ rs[Len(rs)].type # "FAIL"
    /\ \E i \in 2..(Len(rs) - 1) : rs[i] # Status("QUEUED")

\* C15: a put or an invalidate whose transaction had MULTI answered OK and
\* its EXEC reply read, but a command in between not answered QUEUED, hands
\* ERROR to its callback.
C15_QueuedMismatchIsError ==
    \A o \in OpIds :
        Delivered(o) /\ QueuedMissing(TxReplies(o)) => ops[o].rv = CACHE_RESULT_ERROR

\* The reply put o read for EXEC (Fail when it read none).
PutExecReply(o) ==
    IF Len(ops[o].seen) = Len(ops[o].words) + 3
    THEN ops[o].seen[Len(ops[o].seen)]
    ELSE Fail

\* The reply to EXEC is not an array of |W|+1 elements whose last element is
\* the status OK.
BadExec(r, n) ==
    /\ r.type # "FAIL"
    /\ IF r.type # "ARRAY" THEN TRUE
       ELSE IF Len(r.elems) # n + 1 THEN TRUE
       ELSE r.elems[n + 1] # Status("OK")

\* The process died in the job of a put.
PutCrashed == crashed /\ \E o \in OpIds : ops[o].kind = "put" /\ ops[o].st = "io"

\* C16: a put whose EXEC reply is not an array of |W|+1 elements, or whose
\* element |W| is not the status OK, posts ERROR, and the job survives
\* reading such a reply.
C16_BadExecIsError ==
    /\ ~PutCrashed
    /\ \A o \in OpIds :
          (/\ ops[o].kind = "put"
           /\ Ended(o)
           /\ BadExec(PutExecReply(o), Len(ops[o].words)))
          => ops[o].rv = CACHE_RESULT_ERROR

\* C17: a callback is only ever invoked with OK, NOT_FOUND or ERROR, never
\* with PENDING, and the callback of a put only with OK or ERROR.
C17_CallbackResults ==
    \A o \in OpIds :
        Delivered(o) =>
            /\ ops[o].rv # CACHE_RESULT_PENDING
            /\ ops[o].rv \in {CACHE_RESULT_OK, CACHE_RESULT_NOT_FOUND, CACHE_RESULT_ERROR}
            /\ ops[o].kind = "put" =>
                   ops[o].rv \in {CACHE_RESULT_OK, CACHE_RESULT_ERROR}

\* A callback received NOT_FOUND and the callback of a put received ERROR.
C17_Witness ==
    /\ \E o \in OpIds : DeliveredAs(o, CACHE_RESULT_NOT_FOUND)
    /\ \E o \in OpIds : ops[o].kind = "put" /\ DeliveredAs(o, CACHE_RESULT_ERROR)

\* C18: get_value hands on (OK, the bytes of the reply) for a String reply,
\* (NOT_FOUND, no buffer) for a Nil reply, and (ERROR, no buffer) for a reply
\* of any other type and for a command that failed.
C18_GetClassifies ==
    \A o \in OpIds :
        (ops[o].kind = "get" /\ Delivered(o) /\ Len(ops[o].seen) = 1) =>
            LET r == ops[o].seen[1]
            IN /\ r.type = "STRING" =>
                     ops[o].rv = CACHE_RESULT_OK /\ ops[o].out = r.str
               /\ r.type = "NIL" =>
                     ops[o].rv = CACHE_RESULT_NOT_FOUND /\ ops[o].out = NoValue
               /\ r.type \notin {"STRING", "NIL"} =>
                     ops[o].rv = CACHE_RESULT_ERROR /\ ops[o].out = NoValue

\* A get answered with a reply of another type delivered ERROR, and a get
\* whose command failed did too.
C18_Witness ==
    /\ \E o \in OpIds :
          /\ ops[o].kind = "get" /\ DeliveredAs(o, CACHE_RESULT_ERROR)
          /\ ops[o].seen[1].type \in {"ARRAY", "ERROR", "INTEGER", "STATUS"}
    /\ \E o \in OpIds :
          /\ ops[o].kind = "get" /\ DeliveredAs(o, CACHE_RESULT_ERROR)
          /\ ops[o].seen[1] = Fail

\* C19: del_value hands on NOT_FOUND for the Integer reply 0, OK for the
\* Integer reply 1 and for any other positive Integer, ERROR for a reply that
\* is not an Integer and for a command that failed; OK only for a positive
\* Integer.
C19_DelClassifies ==
    \A o \in OpIds :
        (ops[o].kind = "del" /\ Delivered(o) /\ Len(ops[o].seen) = 1) =>
            LET r == ops[o].seen[1]
            IN /\ r.type = "INTEGER" /\ r.int = 0 => ops[o].rv = CACHE_RESULT_NOT_FOUND
               /\ r.type = "INTEGER" /\ r.int > 0 => ops[o].rv = CACHE_RESULT_OK
               /\ r.type # "INTEGER" => ops[o].rv = CACHE_RESULT_ERROR
               /\ ops[o].rv = CACHE_RESULT_OK => r.type = "INTEGER" /\ r.int > 0

\* ------------------------------------------------------ claims under SpecInv
\* The string elements at positions 0, 2, 4, ... of reply r, when it is an
\* array: the keys phase A takes from it.
KeysIn(r) ==
    IF r.type # "ARRAY" THEN {}
    ELSE {j \in 1..Len(r.elems) : j % 2 = 1 /\ r.elems[j].type = "STRING"}

\* Phase A of invalidate o has read its replies.
PhaseADone(o) == ops[o].kind = "invalidate" /\ (Ended(o) \/ ops[o].phase = "B")

\* Phase A of invalidate o collected no key over all its words.
CollectedNone(o) == \A i \in 1..Len(ops[o].words) : KeysIn(ops[o].seen[i]) = {}

\* Invalidate o has written a command of phase B.
SentPhaseB(o) ==
    \E i \in 1..Len(ops[o].sent) : ops[o].sent[i].cmd \in {"MULTI", "HDEL", "DEL", "EXEC"}

\* C20: an invalidate whose phase A collected no key posts OK and writes no
\* MULTI, HDEL, DEL or EXEC; one that collected a key writes phase B.
C20_NoKeysNoPhaseB ==
    \A o \in OpIds :
        PhaseADone(o) =>
            /\ CollectedNone(o) =>
                  Ended(o) /\ ops[o].rv = CACHE_RESULT_OK /\ ~SentPhaseB(o)
            /\ SentPhaseB(o) <=> ~CollectedNone(o)

\* An invalidate of two words, after other operations, that found no key
\* under either and had OK delivered.
C20_Witness ==
    \E o \in OpIds :
        /\ o > 1
        /\ ops[o].kind = "invalidate"
        /\ Len(ops[o].words) = 2
        /\ DeliveredAs(o, CACHE_RESULT_OK)
        /\ CollectedNone(o)
        /\ ~SentPhaseB(o)

\* ---------------------------------------------------- claims under SpecMulti
\* get g was called after the callback of operation i had been invoked.
CalledAfterCallback(g, i) == Delivered(i) /\ g > ops[i].dSeen

\* The value get g delivered was stored (its SET executed) after operation i
\* had been called.
StoredAfterCall(g, i) == ops[g].src # 0 /\ ops[ops[g].src].execSeen >= i

InvalidateGetPair(i, g) ==
    /\ ops[i].kind = "invalidate"
    /\ DeliveredAs(i, CACHE_RESULT_OK)
    /\ ops[g].kind = "get"
    /\ ops[g].key \in ops[i].indexed
    /\ CalledAfterCallback(g, i)
    /\ Delivered(g)

\* C12: after invalidate(S) has delivered OK, a get_value(k) of a key k that
\* was indexed under a word of S when the invalidate was called delivers
\* NOT_FOUND, or OK with a value that was stored after the invalidate was
\* called, whatever the other session stores, deletes or invalidates
\* meanwhile.
C12_InvalidatedOrStoredLater ==
    \A i \in OpIds : \A g \in OpIds :
        InvalidateGetPair(i, g) =>
            \/ ops[g].rv = CACHE_RESULT_NOT_FOUND
            \/ ops[g].rv = CACHE_RESULT_OK /\ StoredAfterCall(g, i)

\* A get after the invalidate delivered a value of the other session whose
\* put was called before the invalidate and stored after it was called.
C12_Witness ==
    \E i \in OpIds : \E g \in OpIds :
        /\ InvalidateGetPair(i, g)
        /\ ops[g].rv = CACHE_RESULT_OK
        /\ StoredAfterCall(g, i)
        /\ ops[ops[g].src].tok # ops[i].tok
        /\ ops[g].src < i

\* ------------------------------------------- more claims under SpecFault
\* Invalidate o read the reply to its EXEC.
ExecRead(o) ==
    /\ Len(TxReplies(o)) = ops[o].nq + 2
    /\ TxReplies(o)[Len(TxReplies(o))].type # "FAIL"

\* C21: an invalidate that wrote phase B hands OK to its callback exactly
\* when the reply it read for MULTI was the status "OK" and it read the reply
\* to EXEC, and ERROR otherwise.
C21_PhaseBResult ==
    \A o \in OpIds :
        (ops[o].kind = "invalidate" /\ Delivered(o) /\ SentPhaseB(o)) =>
            /\ ops[o].rv \in {CACHE_RESULT_OK, CACHE_RESULT_ERROR}
            /\ ops[o].rv = CACHE_RESULT_OK <=>
                   (TxReplies(o)[1] = Status("OK") /\ ExecRead(o))

\* --------------------------------------------------- claims under SpecCreate
\* A field that is a positive integer in decimal: digits, not all of them 0.
IsPositiveInteger(f) ==
    /\ f # <<>>
    /\ \A i \in 1..Len(f) : IsDigit(f[i])
    /\ \E i \in 1..Len(f) : f[i] # "0"

\* The string splits into exactly two fields, HOST and PORT, and PORT is a
\* positive integer.
HostAndPort(a) ==
    /\ Len(Strtok(a, ":")) = 2
    /\ IsPositiveInteger(Strtok(a, ":")[2])

\* C23: create returns null exactly when its argument string does not split
\* into two colon-separated fields or the second is not a positive integer;
\* otherwise it returns a new storage with that host and port.
C23_CreateRejectsMalformed ==
    last.fn = "create" =>
        /\ last.ret = 0 <=> ~HostAndPort(last.arguments)
        /\ last.ret # 0 =>
              /\ last.ret = Len(storages)
              /\ storages[last.ret].m_host = Strtok(last.arguments, ":")[1]
              /\ storages[last.ret].m_port = DecimalValue(Strtok(last.arguments, ":")[2])

\* After a storage was created, create("h:0") returned null.
C23_Witness ==
    /\ Len(storages) = 1
    /\ last.fn = "create"
    /\ last.arguments = <<"h", ":", "0">>
    /\ last.ret = 0

\* C24: a storage only ever exists for a port with 0 < PORT <= 65535, and a
\* create with a port above 65535 returns null.
C24_PortInRange ==
    /\ \A i \in 1..Len(storages) :
          storages[i].m_port > 0 /\ storages[i].m_port <= 65535
    /\ (/\ last.fn = "create"
        /\ Len(Strtok(last.arguments, ":")) = 2
        /\ IsPositiveInteger(Strtok(last.arguments, ":")[2])
        /\ DecimalValue(Strtok(last.arguments, ":")[2]) > 65535)
       => last.ret = 0

\* C25: create_token returns true, with a new token, only when the
\* connection was established, so that every token handed out owns an open
\* connection; when it could not be established it returns false.
C25_TokenOnlyWhenConnected ==
    /\ \A i \in 1..Len(minted) : minted[i].m_redis = "connected"
    /\ last.fn = "create_token" /\ last.pRedis # "connected" => ~last.ret

\* The storages created with a configuration that satisfies P.
CreatedWith(P(_)) == Cardinality({i \in 1..Len(storages) : P(storages[i].m_config)})

\* C27: each of the three configuration warnings has been logged as many
\* times as storages were created with the configuration that triggers it,
\* whatever calls of create were rejected in between.
C27_WarningsOncePerStorage ==
    /\ log["W_SOFT_HARD_TTL"] = CreatedWith(LAMBDA cfg : cfg.soft_ttl # cfg.hard_ttl)
    /\ log["W_MAX_SIZE"] = CreatedWith(LAMBDA cfg : cfg.max_size # 0)
    /\ log["W_MAX_COUNT"] = CreatedWith(LAMBDA cfg : cfg.max_count # 0)

\* ---------------------------------------------- claims under SpecUnsupported
\* C26: a call of clear, get_size, get_items, get_head, get_tail or get_info
\* returns ERROR, and leaves the storage, its tokens, the operations under
\* way and the backing store as they were.
C26_UnsupportedReturnError ==
    [][(last' # last /\ last'.fn \in Unsupported) =>
          /\ last'.ret = CACHE_RESULT_ERROR
          /\ storages' = storages
          /\ minted' = minted
          /\ m_ttl' = m_ttl
          /\ db' = db
          /\ ops' = ops
          /\ outq' = outq]_vars

\* clear was the last call at the storage level, on a store that holds a
\* value and its index entry, and both are still there.
C26_Witness ==
    /\ last.fn = "clear"
    /\ last.ret = CACHE_RESULT_ERROR
    /\ db.str["q1"] = "A"
    /\ db.hash["t1"] = {"q1"}

\* ------------------------------------------------------ claims under SpecCfg
\* The hard ttl the storage of token i was configured with.
HardTtlOf(i) == storages[minted[i].storage].m_config.hard_ttl

\* C28: every token has the hard ttl of its storage's configuration as its
\* ttl, whatever the soft ttl is, and every SET of a put carries it; a get
\* writes one GET and returns what the store holds for the key, whatever its
\* flags, soft_ttl and hard_ttl arguments are.
C28_TtlIsHardTtl ==
    /\ \A i \in 1..Len(minted) : minted[i].m_ttl = HardTtlOf(i)
    /\ m_ttl = HardTtlOf(1)
    /\ \A o \in OpIds : \A i \in 1..Len(SetsSent(o)) : SetsSent(o)[i].px = HardTtlOf(1)
    /\ \A g \in OpIds :
          ops[g].kind = "get" /\ Delivered(g) =>
              /\ Len(ops[g].sent) = 1
              /\ ops[g].sent[1].cmd = "GET" /\ ops[g].sent[1].key = ops[g].key
              /\ ops[g].rv = CACHE_RESULT_OK <=> ops[g].src # 0
              /\ ops[g].rv = CACHE_RESULT_OK => ops[g].out = ops[ops[g].src].val
              /\ ops[g].rv # CACHE_RESULT_OK =>
                    ops[g].rv = CACHE_RESULT_NOT_FOUND /\ ops[g].out = NoValue

\* On a storage whose soft ttl differs from its hard ttl, a get called with
\* hard_ttl = 1 delivered a value that was at least 1 ms old.
C28_Witness ==
    \E g \in OpIds :
        /\ ops[g].kind = "get"
        /\ DeliveredAs(g, CACHE_RESULT_OK)
        /\ ops[g].hard_ttl = 1
        /\ ops[g].tExec - ops[ops[g].src].tExec >= 1
        /\ storages[1].m_config.soft_ttl # storages[1].m_config.hard_ttl

\* C29: a put writes MULTI, one HSET w k "1" per element of its word list in
\* the order of the list (a word that is there twice is written twice), the
\* SET of k, and EXEC, in this order and nothing else; when MULTI was
\* answered OK it reads |W| + 3 replies.
C29_PutCommandOrder ==
    \A o \in OpIds :
        (ops[o].kind = "put" /\ ops[o].st # "queued") =>
            LET W == ops[o].words
                n == Len(W)
                sent == ops[o].sent
            IN /\ Len(sent) = n + 3
               /\ sent[1].cmd = "MULTI"
               /\ \A i \in 1..n :
                     /\ sent[i + 1].cmd = "HSET"
                     /\ sent[i + 1].key = W[i]
                     /\ sent[i + 1].args = <<ops[o].key, "1">>
               /\ sent[n + 2].cmd = "SET"
               /\ sent[n + 2].key = ops[o].key
               /\ sent[n + 2].args = <<ops[o].val>>
               /\ sent[n + 3].cmd = "EXEC"
               /\ (Ended(o) /\ ops[o].seen[1] = Status("OK")) =>
                     Len(ops[o].seen) = n + 3

\* A put with the words t2, t1, t2 was delivered after it read six replies.
C29_Witness ==
    \E o \in OpIds :
        /\ ops[o].kind = "put"
        /\ ops[o].words = <<"t2", "t1", "t2">>
        /\ Delivered(o)
        /\ Len(ops[o].seen) = 6
        /\ ops[o].seen[1] = Status("OK")

\* ------------------------------------------------- more claims under SpecInv
\* The commands invalidate o wrote between its MULTI and its EXEC.
QueuedSent(o) == SelectSeq(ops[o].sent, LAMBDA c : c.cmd \in {"HDEL", "DEL"})

\* C30: in phase B the number of QUEUED replies the job reads is the number
\* of commands it wrote between MULTI and EXEC, whichever words had keys and
\* whichever had none, and a job that has ended has read as many replies as
\* it wrote commands.
C30_QueuedCountMatches ==
    \A o \in OpIds :
        (ops[o].kind = "invalidate" /\ ops[o].phase = "B") =>
            /\ ops[o].nq = Len(QueuedSent(o))
            /\ Ended(o) => Len(ops[o].seen) = Len(ops[o].sent)

\* ------------------------------------------------ claims under SpecFaultInv
\* The loop of phase A over the elements j, j + 2, ... of a reply: the
\* strings among them.
RECURSIVE StringsFrom(_, _)
StringsFrom(es, j) ==
    IF j > Len(es) THEN <<>>
    ELSE (IF es[j].type = "STRING" THEN <<es[j].str>> ELSE <<>>) \o StringsFrom(es, j + 2)

\* The keys invalidate o has from the reply it read for its i-th word.
Collected(o, i) ==
    LET r == ops[o].seen[i]
    IN IF r.type = "ARRAY" THEN StringsFrom(r.elems, 1) ELSE <<>>

CollectedAll(o) == UNION {SeqToSet(Collected(o, i)) : i \in 1..Len(ops[o].words)}

\* The store answered the transaction of invalidate o.
TxAnswered(o) == Ended(o) /\ TxReplies(o) # <<>> /\ TxReplies(o)[1] # Fail

C32_ExpectStatusOnlyStatus ==
    last.fn = "expect_status" =>
        /\ Len(last.read) = 1
        /\ last.ret <=> last.read[1] = Status(last.zValue)

\* C33: a call of expect_n_status makes its n reads whatever the earlier
\* ones gave, and returns success exactly when each of its n calls of
\* expect_status did; with n = 0 it reads nothing and succeeds.
C33_ExpectNStatusAll ==
    last.fn = "expect_n_status" =>
        /\ Len(last.read) = last.n
        /\ last.ret <=> \A i \in 1..last.n : last.each[i]
        /\ last.n = 0 => last.read = <<>> /\ last.ret

\* expect_n_status read on after a call that failed and returned failure
\* though its last call succeeded.
C33_Witness ==
    /\ last.fn = "expect_n_status"
    /\ last.n = 2
    /\ ~last.each[1]
    /\ last.each[2]
    /\ ~last.ret

\* ------------------------------------------- more claims under SpecAsync
\* C34: the buffer of an operation is released once and on the worker the
\* token was created on: put_value's clone is freed there when its
\* completion runs, the callback invoked or not; get_value's buffer is
\* either passed to the callback or freed there, one of the two and not
\* both; before the completion runs the buffer is neither freed nor passed.
C34_BufferReleasedOnce ==
    \A o \in OpIds :
        /\ ops[o].nfree <= 1
        /\ ops[o].nfree > 0 => ops[o].freeW = created[ops[o].tok]
        /\ ~CompletionRun(o) => ops[o].nfree = 0 /\ ~ops[o].handed
        /\ (CompletionRun(o) /\ ops[o].kind = "put") =>
              ops[o].nfree = 1 /\ ~ops[o].handed
        /\ (CompletionRun(o) /\ ops[o].kind = "get" /\ ops[o].out # NoValue) =>
              \/ ops[o].cb = "invoked" /\ ops[o].handed /\ ops[o].nfree = 0
              \/ ops[o].cb = "suppressed" /\ ~ops[o].handed /\ ops[o].nfree = 1

\* A put whose callback was invoked and a get with a value whose callback
\* was suppressed have both run their completions, on a token created on
\* another worker than the one that called.
C34_Witness ==
    \E p \in OpIds : \E g \in OpIds :
        /\ ops[p].kind = "put" /\ ops[p].cb = "invoked" /\ ops[p].nfree = 1
        /\ ops[g].kind = "get" /\ ops[g].out # NoValue
        /\ ops[g].cb = "suppressed" /\ ops[g].nfree = 1
        /\ created[ops[p].tok] # ops[p].caller

\* C35: the connection of a token is not freed while a job of the token is
\* queued, running or not yet destroyed, nor while a completion of it is
\* posted, whether or not the session still holds the token; it is freed
\* once, when the last reference to the token goes.
C35_ClosedOnceAtLastRef ==
    \A t \in Tokens :
        /\ closes[t] <= 1
        /\ closes[t] = 1 <=> UseCount(t) = 0
        /\ closes[t] > 0 =>
              \A o \in OpIds :
                  ops[o].tok = t => ~ops[o].job /\ CompletionRun(o)

\* The connection was freed after a completion ran that found the session
\* gone: the job outlived the session's reference.
C35_Witness ==
    \E o \in OpIds :
        /\ closes[ops[o].tok] = 1
        /\ ops[o].cb = "suppressed"
        /\ ~ops[o].held

\* ------------------------------------------------- claims under SpecBetween
\* The store executed put p between the two phases of invalidate i of the
\* other session, p listing a word of i, and i had OK delivered.
PutBetweenPhases(p, i) ==
    /\ ops[p].kind = "put"
    /\ i \in ops[p].between
    /\ ops[p].tok # ops[i].tok
    /\ WordSet(p) \cap WordSet(i) # {}
    /\ SentPhaseB(i)
    /\ DeliveredAs(i, CACHE_RESULT_OK)

\* The words of put p under which invalidate i did not find the key of p.
NotCollectedUnder(p, i) ==
    {w \in WordSet(p) :
        \A n \in 1..Len(ops[i].words) :
            ops[i].words[n] = w => ops[p].key \notin SeqToSet(Collected(i, n))}

\* C36: a put of the other session that the store executes between phase A
\* and phase B of an invalidate of one of its words escapes the invalidate,
\* which still delivers OK: when phase A had not seen the key, a value stored
\* between the phases and its index entries are in the store after phase B;
\* when it had, the value is deleted and the key stays in the hashes phase A
\* had not seen it in.
C36_PutBetweenPhasesEscapes ==
    \A i \in OpIds : \A p \in OpIds :
        PutBetweenPhases(p, i) =>
            LET k == ops[p].key
                d == ops[i].dbB
            IN /\ \A w \in NotCollectedUnder(p, i) : k \in d.hash[w]
               /\ IF k \in CollectedAll(i)
                  THEN d.str[k] = NoValue
                  ELSE /\ d.by[k] # 0
                       /\ i \in ops[d.by[k]].between
                       /\ d.str[k] = ops[d.by[k]].val

\* After an invalidate delivered OK, a get called after that callback
\* delivered the value a put had stored between the phases of the
\* invalidate under the invalidated word.
C36_Witness ==
    \E i \in OpIds : \E p \in OpIds : \E g \in OpIds :
        /\ PutBetweenPhases(p, i)
        /\ ops[p].key \notin CollectedAll(i)
        /\ ops[g].kind = "get"
        /\ ops[g].key = ops[p].key
        /\ CalledAfterCallback(g, i)
        /\ DeliveredAs(g, CACHE_RESULT_OK)
        /\ ops[g].src = p
        /\ ops[g].out = ops[p].val

\* ------------------------------------------- further claims under SpecFault
\* How many commands named c operation o has written.
Written(o, c) == Len(SelectSeq(ops[o].sent, LAMBDA x : x.cmd = c))

\* The commands of operation o among the commands q.
CommandsOf(o, q) == SelectSeq(q, LAMBDA x : x.op = o)

\* What one operation writes, each command once: a GET; a DEL; MULTI, an
\* HSET per word, SET, EXEC; an HGETALL per word and at most one MULTI, an
\* HDEL per word, DEL, EXEC.
WrittenOnce(o) ==
    LET n == Len(ops[o].words)
        all == Len(ops[o].sent)
    IN CASE ops[o].kind = "get" -> all = Written(o, "GET") /\ all <= 1
         [] ops[o].kind = "del" -> all = Written(o, "DEL") /\ all <= 1
         [] ops[o].kind = "put" ->
              /\ all \in {0, n + 3}
              /\ all = Written(o, "MULTI") + Written(o, "HSET") + Written(o, "SET")
                       + Written(o, "EXEC")
              /\ Written(o, "MULTI") <= 1 /\ Written(o, "SET") <= 1
              /\ Written(o, "EXEC") <= 1 /\ Written(o, "HSET") <= n
         [] ops[o].kind = "invalidate" ->
              /\ all = Written(o, "HGETALL") + Written(o, "MULTI") + Written(o, "HDEL")
                       + Written(o, "DEL") + Written(o, "EXEC")
              /\ Written(o, "HGETALL") <= n /\ Written(o, "HDEL") <= n
              /\ Written(o, "MULTI") <= 1 /\ Written(o, "DEL") <= 1
              /\ Written(o, "EXEC") <= 1

\* C37: an operation writes each of its commands at most once, and a put
\* writes no HDEL or DEL; once its job has ended, with whatever result and
\* after whatever reply, it writes nothing more and nothing more of it
\* reaches the connection.
C37_NoRetryNoUndo ==
    /\ [](\A o \in OpIds : WrittenOnce(o))
    /\ [][\A o \in OpIds :
             Ended(o) =>
                 /\ ops'[o].sent = ops[o].sent
                 /\ Len(CommandsOf(o, outq'[ops[o].tok]))
                        <= Len(CommandsOf(o, outq[ops[o].tok]))]_vars

\* A put that failed at the reply to MULTI or at a later one wrote its
\* transaction once and nothing after it, and the next operation has run.
C37_Witness ==
    \E o \in OpIds : \E o2 \in OpIds :
        /\ ops[o].kind = "put"
        /\ Ended(o)
        /\ \E i \in 1..Len(ops[o].seen) :
              ops[o].seen[i] = Fail \/ (i = 1 /\ ops[o].seen[i] = Status("NO"))
        /\ Len(ops[o].sent) = Len(ops[o].words) + 3
        /\ o2 > o
        /\ Ended(o2)

\* ------------------------------------------------ further claims under SpecInv
\* Invalidate i had OK delivered after the store executed its transaction.
InvalidateDone(i) ==
    /\ ops[i].kind = "invalidate"
    /\ DeliveredAs(i, CACHE_RESULT_OK)
    /\ SentPhaseB(i)

\* Invalidate i deleted the value k had when i was called.
DeletedBy(i, k) ==
    /\ InvalidateDone(i)
    /\ ops[i].db0.str[k] # NoValue
    /\ ops[i].dbB.str[k] = NoValue

\* Key k was a field of the hash of a word of invalidate i when i was called.
IndexedFor(i, k) == \E w \in WordSet(i) : k \in ops[i].db0.hash[w]

\* C38 as stated: an invalidate deletes the value of a key only when the
\* put that stored that value listed a word of the invalidate.
C38_DeletesOnlyCurrentWords ==
    \A i \in OpIds : \A k \in Keys :
        DeletedBy(i, k) =>
            WordSet(ops[i].db0.by[k]) \cap WordSet(i) # {}

\* C38: an invalidate deletes the value of a key exactly when the key is a
\* field of the hash of one of its words at the time, whichever operation
\* left the field there: the put that stored the value, an earlier put of
\* the key under other words, or a put whose value was deleted since.
C38_DeletesWhatIsIndexed ==
    \A i \in OpIds : \A k \in Keys :
        (InvalidateDone(i) /\ ops[i].db0.str[k] # NoValue) =>
            (DeletedBy(i, k) <=> IndexedFor(i, k))

\* An invalidate deleted a value whose put listed none of its words: the
\* key was a field of the word's hash from an earlier put.
C38_Witness ==
    \E i \in OpIds : \E k \in Keys :
        /\ DeletedBy(i, k)
        /\ WordSet(ops[i].db0.by[k]) \cap WordSet(i) = {}
        /\ IndexedFor(i, k)

\* ------------------------------------------------- claims under SpecVisible
\* The store has processed some and not all of the commands put p wrote, or
\* has executed some and not all of the HSETs and the SET of p.
PartlyApplied(p) ==
    /\ ops[p].kind = "put"
    /\ \/ /\ Len(CommandsOf(p, outq[ops[p].tok])) > 0
          /\ Len(CommandsOf(p, outq[ops[p].tok])) < Len(ops[p].sent)
       \/ /\ ops[p].applied > 0
          /\ ops[p].applied < ops[p].tried

\* The store is about to process a GET or an HGETALL of token t.
Observes(t) == outq[t] # <<>> /\ Head(outq[t]).cmd \in {"GET", "HGETALL"}

LastDelivered(i) ==
    /\ ops[i].kind = "invalidate"
    /\ i = Len(ops)
    /\ DeliveredAs(i, CACHE_RESULT_OK)

\* C40: once an invalidate has delivered OK, and before anything else is
\* called, the hash of each of its words holds none of the keys it held
\* when the invalidate was called, and the hash of every other word holds
\* what it held then, the keys whose values were deleted too.
C40_IndexAfterInvalidate ==
    \A i \in OpIds :
        LastDelivered(i) =>
            \A w \in Words :
                IF w \in WordSet(i)
                THEN db.hash[w] \cap ops[i].db0.hash[w] = {}
                ELSE db.hash[w] = ops[i].db0.hash[w]

\* An invalidate of one word emptied the hash of that word and deleted a
\* value whose key is still a field of the other word's hash.
C40_Witness ==
    \E i \in OpIds : \E k \in Keys :
        /\ LastDelivered(i)
        /\ WordSet(i) = {"t1"}
        /\ k \in ops[i].db0.hash["t1"]
        /\ ops[i].db0.str[k] # NoValue
        /\ db.str[k] = NoValue
        /\ k \in db.hash["t2"]

====
